---- MODULE Spec2Model ----
(***************************************************************************)
(* The file-backed task store of projektieren (src/core/TaskStore.ts and   *)
(* its copy inside the MCP server): the tasks.json document, the .lock     *)
(* marker, the tasks.json.tmp file, and the store operations of several    *)
(* OS processes whose file-system calls interleave.                        *)
(***************************************************************************)
EXTENDS Integers, Sequences, FiniteSets, TLC

\* ---------------------------------------------------------------- bounds
NumProcs == 2       \* processes sharing one project directory
MaxOps == 2         \* store operations started in one behaviour
MaxTasks == 2       \* task ids uuidv4 hands out in one behaviour
MaxSessions == 2    \* session ids uuidv4 hands out in one behaviour
MaxClock == 1       \* last value of the wall clock
MaxRetries == 2     \* backoff sleeps sampled within one timeout window
MaxListed == 3      \* tasks of a document the query operations are applied to
MaxLogs == 4        \* log entries of a run session in a listed document

\* ------------------------------------------------------- program constants
DefaultLimit == 100
MinTitleLen == 3
RecentLogCount == 3
LockTimeout == 5000
LockBackoff == 50

Procs == 1..NumProcs
Null == "null"
\* undefined, for the fields the model holds as numbers
NoTitle == 0 - 1
NoTime == 0 - 1
NoSession == 0
Status == {"BACKLOG", "IN_PROGRESS", "WAITING_APPROVAL", "FINISHED"}
Category == {"CORE", "UI", "API"}
Priority == {"HIGH", "MEDIUM", "LOW"}

\* src/core/TaskStore.ts:114
priorityOrder == [pr \in Priority |->
                    IF pr = "HIGH" THEN 0 ELSE IF pr = "MEDIUM" THEN 1 ELSE 2]

\* the error messages the store throws
ErrTitle == "Title must be at least 3 characters"
ErrTaskNotFound == "Task not found"
ErrSessionNotFound == "Session not found"
ErrRunning == "Task already has a running session"
ErrLock == "Failed to acquire lock: timeout"
ErrIO == "I/O error"
ErrType == "TypeError"

\* ------------------------------------------------------------ input sets
\* titles are modelled by their length
TitleInputs == {2, 3}
CategoryInputs == {"CORE"}
PriorityInputs == {"HIGH", "LOW"}
BranchTargetInputs == {[type |-> "current", name |-> Null]}
CreateInputs == [title : TitleInputs, description : {Null}, category : CategoryInputs,
                 priority : PriorityInputs, branchTarget : BranchTargetInputs]
StatusInputs == {"BACKLOG", "FINISHED"}
ByInputs == {"user"}
ReasonInputs == {Null}
TaskIds == 1..MaxTasks
SessionIds == 1..MaxSessions

VARIABLES
    doc,        \* tasks.json: [state, data]
    tmp,        \* tasks.json.tmp: [state, data]
    lock,       \* .lock: 0 when absent, else the pid written into it
    pc,         \* per process: where its current operation stands
    op,         \* per process: the operation in flight and its arguments
    local,      \* per process: the `tasks` array the operation holds in memory
    result,     \* per process: what its last finished operation returned/threw
    clock,      \* Date.now()
    nextId,     \* next task id uuidv4 returns
    nextSid,    \* next session id uuidv4 returns
    opsLeft,    \* operations that may still be started
    stale,      \* per process: another write committed since its read
    createdOk,  \* ids of the tasks whose createTask returned successfully
    quiet,      \* per process: consecutive equal claimNextTask calls without a commit
    prevClaim,  \* per process: what the previous claimNextTask returned
    committed,  \* the document as the last rename left it
    active,     \* webview provider: activeProjectId
    parked,     \* per project that is not the active one: the files of its directory
    projects,   \* webview provider: the registry, one entry per workspace folder
    taskStores  \* webview provider: project id -> the folder of its TaskStore

vars == <<doc, tmp, lock, pc, op, local, result, clock, nextId, nextSid,
          opsLeft, stale, createdOk, quiet, prevClaim, committed, active, parked, projects, taskStores>>

\* the number of the call that is starting, and an operation started by it
Op(kind, id, sid) ==
    [kind |-> kind, id |-> id, sid |-> sid, categories |-> {}, priorities |-> {},
     seq |-> opsLeft, waited |-> 0, args |-> <<>>]

\* ------------------------------------------------------------- the files
Absent == [state |-> "absent", data |-> <<>>]

\* the projects of the webview provider, one per workspace folder, each with
\* its own .kanban directory; doc, tmp and lock are the files of the active one
NumProjects == 2
ProjectIds == 1..NumProjects
Dir(d, t, l) == [doc |-> d, tmp |-> t, lock |-> l]
EmptyDir == Dir(Absent, Absent, 0)
OneProject == [k \in ProjectIds |-> EmptyDir]

\* generateProjectId: hash = ((hash << 5) - hash) + char over the characters
\* of the folder path, hash & hash, Math.abs, base 36. A path is the sequence
\* of its character codes; the paths of the model are short, so the sum stays
\* where the 32-bit conversion and Math.abs change nothing, and the id is
\* the number the base-36 numeral stands for.
RECURSIVE hashFrom(_, _, _)
hashFrom(folderPath, i, hash) ==
    IF i > Len(folderPath) THEN hash
    ELSE hashFrom(folderPath, i + 1, ((hash * 32) - hash) + folderPath[i])
generateProjectId(folderPath) == hashFrom(folderPath, 1, 0)

Project(folderPath) == [id |-> generateProjectId(folderPath), path |-> folderPath]

\* the workspace folders open while the store operations are looked at: the
\* folder with path <<k>> has the project id k
\* this.projects.find(p => p.id === id): its index, 0 when there is none
RECURSIVE findProjectFrom(_, _, _)
findProjectFrom(registry, id, i) ==
    IF i > Len(registry) THEN 0
    ELSE IF registry[i].id = id THEN i
    ELSE findProjectFrom(registry, id, i + 1)
findProject(registry, id) == findProjectFrom(registry, id, 1)

OpenProjects == [k \in ProjectIds |-> Project(<<k>>)]
OpenStores == [k \in ProjectIds |-> <<k>>]
PartialFile(tasks) == [state |-> "partial", data |-> tasks]
CompleteFile(tasks) == [state |-> "complete", data |-> tasks]

\* a file that cannot be read, and one whose text is valid JSON but no array
Unreadable == [state |-> "unreadable", data |-> <<>>]
NonArray == [state |-> "nonArray", data |-> <<>>]

\* readTasks: [] when the file is absent or readFileSync or JSON.parse throws
readTasks(f) == IF f.state = "complete" THEN f.data ELSE <<>>

\* readTasks returns whatever JSON.parse returned: a value without filter,
\* sort and find when the text was not an array
isArray(f) == f.state # "nonArray"

\* Array.prototype.findIndex on the id; 0 stands for -1
RECURSIVE findFrom(_, _, _)
findFrom(tasks, id, i) ==
    IF i > Len(tasks) THEN 0
    ELSE IF tasks[i].id = id THEN i
    ELSE findFrom(tasks, id, i + 1)
\* a search that falls back on the first task
findIndexOrFirst(tasks, id) ==
    IF findFrom(tasks, id, 1) = 0 /\ tasks # <<>> THEN 1 ELSE findFrom(tasks, id, 1)

findIndex(tasks, id) == findFrom(tasks, id, 1)

RECURSIVE findSessionFrom(_, _, _)
findSessionFrom(sessions, sid, i) ==
    IF i > Len(sessions) THEN 0
    ELSE IF sessions[i].sessionId = sid THEN i
    ELSE findSessionFrom(sessions, sid, i + 1)
findSessionIndex(sessions, sid) == findSessionFrom(sessions, sid, 1)

\* task.runSessions.find(s => s.status === 'running') !== undefined
existingRunning(task) ==
    \E i \in 1..Len(task.runSessions) : task.runSessions[i].status = "running"

\* an operation in flight: its name, task id, session id, claim filters and,
\* for updateTask and updateStatus, the input object
NoOp == [kind |-> "none", id |-> 0, sid |-> 0, categories |-> {}, priorities |-> {},
         seq |-> 0, waited |-> 0, args |-> <<>>]
\* a result: the operation, its task id, "ok" or the message thrown, the value
\* returned (<<v>>, or <<>> for null or nothing), the number of the call and,
\* when stopRun or addLog threw, the session id it was given
Result(kind, id, status, value, seq) ==
    [kind |-> kind, id |-> id, status |-> status, value |-> value, seq |-> seq,
     sid |-> NoSession]
NoResult == Result("none", 0, "none", <<>>, 0)
NoClaim == [categories |-> {}, priorities |-> {}, value |-> <<>>]

\* new Date(): the clock stands still or moves on
Nows == {t \in {clock, clock + 1} : t <= MaxClock}

\* an operation that throws before it writes
Throw(p, kind, id, msg) ==
    /\ result' = [result EXCEPT ![p] = Result(kind, id, msg, <<>>, opsLeft)]
    /\ UNCHANGED <<pc, op, local, stale>>

\* stopRun or addLog throws before it writes
ThrowSession(p, kind, id, sid, msg) ==
    /\ result' = [result EXCEPT ![p] =
                    [Result(kind, id, msg, <<>>, opsLeft) EXCEPT !.sid = sid]]
    /\ UNCHANGED <<pc, op, local, stale>>

\* an operation that read the document and goes on to writeTasks(tasks)
GoWrite(p, o, tasks) ==
    /\ pc' = [pc EXCEPT ![p] = "acquire"]
    /\ op' = [op EXCEPT ![p] = o]
    /\ local' = [local EXCEPT ![p] = tasks]
    /\ stale' = [stale EXCEPT ![p] = FALSE]
    /\ UNCHANGED result

Start(p) == pc[p] = "idle" /\ opsLeft > 0 /\ opsLeft' = opsLeft - 1

\* the last call of p returned, and it was this operation
Returned(p, kind) ==
    /\ pc[p] = "idle"
    /\ result[p].kind = kind
    /\ result[p].status = "ok"

\* the call p makes in this step names this task
NamesTask(p, id) ==
    \/ pc'[p] = "acquire" /\ op'[p].id = id
    \/ pc'[p] = "idle" /\ result'[p].id = id

\* the call p makes in this step names this task and this session
Names(p, id, sid) ==
    \/ pc'[p] = "acquire" /\ op'[p].id = id /\ op'[p].sid = sid
    \/ pc'[p] = "idle" /\ result'[p].id = id /\ result'[p].sid = sid

\* ------------------------------------------------------------ createTask
\* a task created without its creation entry
NewTaskNoHistory(id, input, now) ==
    [id |-> id, title |-> input.title, description |-> input.description,
     category |-> input.category, priority |-> input.priority,
     branchTarget |-> input.branchTarget, status |-> "BACKLOG",
     createdAt |-> now, updatedAt |-> now,
     history |-> <<>>,
     runSessions |-> <<>>]

NewTask(id, input, now) ==
    [id |-> id, title |-> input.title, description |-> input.description,
     category |-> input.category, priority |-> input.priority,
     branchTarget |-> input.branchTarget, status |-> "BACKLOG",
     createdAt |-> now, updatedAt |-> now,
     history |-> <<[at |-> now, from |-> Null, to |-> "BACKLOG", by |-> "user",
                    reason |-> Null, sessionId |-> NoSession]>>,
     runSessions |-> <<>>]

\* !input.title || input.title.length < 3: the empty title has length 0
createTaskWith(p, inputs) ==
    /\ Start(p)
    /\ \E input \in inputs :
         IF input.title < MinTitleLen
         THEN /\ Throw(p, "createTask", 0, ErrTitle)
              /\ UNCHANGED <<clock, nextId>>
         ELSE /\ nextId <= MaxTasks
              /\ \E now \in Nows :
                   /\ clock' = now
                   /\ GoWrite(p, Op("createTask", nextId, 0),
                              Append(readTasks(doc), NewTask(nextId, input, now)))
              /\ nextId' = nextId + 1
    /\ UNCHANGED <<doc, tmp, lock, nextSid, createdOk, quiet, prevClaim, committed, active, parked, projects, taskStores>>

createTask(p) == createTaskWith(p, CreateInputs)

\* ------------------------------------------------------------ updateTask
\* an omitted field is NoTitle, Null or, for the branch target, <<>>
UpdateInputs == [title : {NoTitle, 2}, description : {Null}, category : {Null},
                 priority : {Null, "MEDIUM"}, branchTarget : {<<>>}]

\* updateTask assigning every field of the input, supplied or not
ApplyUpdateAll(task, input, now) ==
    [task EXCEPT
       !.title = input.title,
       !.description = input.description,
       !.category = input.category,
       !.priority = input.priority,
       !.branchTarget = IF input.branchTarget # <<>> THEN input.branchTarget[1] ELSE @,
       !.updatedAt = now]

ApplyUpdate(task, input, now) ==
    [task EXCEPT
       !.title = IF input.title # NoTitle THEN input.title ELSE @,
       !.description = IF input.description # Null THEN input.description ELSE @,
       !.category = IF input.category # Null THEN input.category ELSE @,
       !.priority = IF input.priority # Null THEN input.priority ELSE @,
       !.branchTarget = IF input.branchTarget # <<>> THEN input.branchTarget[1] ELSE @,
       !.updatedAt = now]

updateTaskWith(p, inputs) ==
    /\ Start(p)
    /\ \E id \in TaskIds, input \in inputs :
         LET tasks == readTasks(doc)
             index == findIndex(tasks, id) IN
         IF index = 0
         THEN Throw(p, "updateTask", id, ErrTaskNotFound) /\ UNCHANGED clock
         ELSE \E now \in Nows :
                /\ clock' = now
                /\ GoWrite(p, [Op("updateTask", id, 0) EXCEPT !.args = <<input>>],
                           [tasks EXCEPT ![index] = ApplyUpdate(@, input, now)])
    /\ UNCHANGED <<doc, tmp, lock, nextId, nextSid, createdOk, quiet, prevClaim, committed, active, parked, projects, taskStores>>

updateTask(p) == updateTaskWith(p, UpdateInputs)

\* ------------------------------------------------------------ deleteTask
\* tasks.splice(index, 1)
splice(tasks, index) ==
    [i \in 1..(Len(tasks) - 1) |-> IF i < index THEN tasks[i] ELSE tasks[i + 1]]

deleteTask(p) ==
    /\ Start(p)
    /\ \E id \in TaskIds :
         LET tasks == readTasks(doc)
             index == findIndex(tasks, id) IN
         IF index = 0
         THEN Throw(p, "deleteTask", id, ErrTaskNotFound)
         ELSE GoWrite(p, Op("deleteTask", id, 0),
                      splice(tasks, index))
    /\ UNCHANGED <<doc, tmp, lock, clock, nextId, nextSid, createdOk, quiet,
                   prevClaim, committed, active, parked, projects, taskStores>>

\* ---------------------------------------------------------- updateStatus
\* updateStatus recording nothing when the status stays the same
StatusUpdateIfChanged(task, status, by, reason, sessionId, now) ==
    IF task.status = status
    THEN [task EXCEPT !.updatedAt = now]
    ELSE [task EXCEPT
            !.status = status,
            !.updatedAt = now,
            !.history = Append(@, [at |-> now, from |-> task.status, to |-> status,
                                   by |-> by, reason |-> reason,
                                   sessionId |-> sessionId])]

StatusUpdate(task, status, by, reason, sessionId, now) ==
    [task EXCEPT
       !.status = status,
       !.updatedAt = now,
       !.history = Append(@, [at |-> now, from |-> task.status, to |-> status,
                              by |-> by, reason |-> reason, sessionId |-> sessionId])]

\* inputs: UpdateStatusInput without its id
updateStatusWith(p, inputs) ==
    /\ Start(p)
    /\ \E id \in TaskIds, input \in inputs :
         LET tasks == readTasks(doc)
             index == findIndex(tasks, id) IN
         IF index = 0
         THEN Throw(p, "updateStatus", id, ErrTaskNotFound) /\ UNCHANGED clock
         ELSE \E now \in Nows :
                /\ clock' = now
                /\ GoWrite(p, [Op("updateStatus", id, 0) EXCEPT !.args = <<input>>],
                           [tasks EXCEPT ![index] =
                               StatusUpdate(@, input.status, input.by, input.reason,
                                            input.sessionId, now)])
    /\ UNCHANGED <<doc, tmp, lock, nextId, nextSid, createdOk, quiet, prevClaim, committed, active, parked, projects, taskStores>>

updateStatus(p) ==
    updateStatusWith(p, [status : StatusInputs, by : ByInputs, reason : ReasonInputs,
                         sessionId : {NoSession}])

\* -------------------------------------------------------------- startRun
SeedLog(now) == [timestamp |-> now, message |-> "Task execution started", type |-> "info"]

\* a session opened without its seed entry
NewSessionNoSeed(sid, now) ==
    [sessionId |-> sid, startedAt |-> now, endedAt |-> NoTime, status |-> "running",
     logs |-> <<>>]

NewSession(sid, now) ==
    [sessionId |-> sid, startedAt |-> now, endedAt |-> NoTime, status |-> "running",
     logs |-> <<SeedLog(now)>>]

\* startRun without its check
RunGuardNone(task) == FALSE

\* the guard of startRun: a session is already running
RunGuard(task) == existingRunning(task)

\* startRun recording BACKLOG as the status it found
StartRunUpdateFromBacklog(task, sid, now) ==
    [task EXCEPT
       !.runSessions = Append(@, NewSession(sid, now)),
       !.status = "IN_PROGRESS",
       !.updatedAt = now,
       !.history = Append(@, [at |-> now, from |-> "BACKLOG", to |-> "IN_PROGRESS",
                              by |-> "system", reason |-> Null, sessionId |-> sid])]

StartRunUpdate(task, sid, now) ==
    [task EXCEPT
       !.runSessions = Append(@, NewSession(sid, now)),
       !.status = "IN_PROGRESS",
       !.updatedAt = now,
       !.history = Append(@, [at |-> now, from |-> task.status, to |-> "IN_PROGRESS",
                              by |-> "system", reason |-> Null, sessionId |-> sid])]

\* the documents a store may find on disk when it is constructed: none, one
\* left by createTask, one left by createTask and startRun
InitialTask ==
    NewTask(1, [title |-> MinTitleLen, description |-> Null, category |-> "CORE",
                priority |-> "HIGH", branchTarget |-> [type |-> "current", name |-> Null]],
            0)
InitialDocs ==
    {Absent, CompleteFile(<<InitialTask>>),
     CompleteFile(<<StartRunUpdate(InitialTask, 1, 0)>>)}

SessionCount(tasks) ==
    IF tasks = <<>> THEN 0 ELSE Len(tasks[1].runSessions)

Init ==
    /\ doc \in InitialDocs
    /\ committed = doc
    /\ tmp = Absent
    /\ lock = 0
    /\ pc = [p \in Procs |-> "idle"]
    /\ op = [p \in Procs |-> NoOp]
    /\ local = [p \in Procs |-> <<>>]
    /\ result = [p \in Procs |-> NoResult]
    /\ clock = 0
    /\ nextId = Len(readTasks(doc)) + 1
    /\ nextSid = SessionCount(readTasks(doc)) + 1
    /\ opsLeft = MaxOps
    /\ stale = [p \in Procs |-> FALSE]
    /\ createdOk = {readTasks(doc)[i].id : i \in 1..Len(readTasks(doc))}
    /\ quiet = [p \in Procs |-> 0]
    /\ prevClaim = [p \in Procs |-> NoClaim]
    /\ active = 1
    /\ parked = OneProject
    /\ projects = OpenProjects
    /\ taskStores = OpenStores

startRun(p) ==
    /\ Start(p)
    /\ \E id \in TaskIds :
         LET tasks == readTasks(doc)
             index == findIndex(tasks, id) IN
         IF index = 0
         THEN Throw(p, "startRun", id, ErrTaskNotFound) /\ UNCHANGED <<clock, nextSid>>
         ELSE IF RunGuard(tasks[index])
         THEN Throw(p, "startRun", id, ErrRunning) /\ UNCHANGED <<clock, nextSid>>
         ELSE /\ nextSid <= MaxSessions
              /\ \E now \in Nows :
                   /\ clock' = now
                   /\ GoWrite(p, Op("startRun", id, nextSid),
                              [tasks EXCEPT ![index] = StartRunUpdate(@, nextSid, now)])
              /\ nextSid' = nextSid + 1
    /\ UNCHANGED <<doc, tmp, lock, nextId, createdOk, quiet, prevClaim, committed, active, parked, projects, taskStores>>

\* --------------------------------------------------------------- stopRun
\* stopRun closing every session of the task
StopRunUpdateAll(task, sessionIndex, sid, now) ==
    [task EXCEPT
       !.runSessions = [i \in 1..Len(@) |-> [@[i] EXCEPT !.endedAt = now,
                                                         !.status = "stopped"]],
       !.status = "WAITING_APPROVAL",
       !.updatedAt = now,
       !.history = Append(@, [at |-> now, from |-> task.status,
                              to |-> "WAITING_APPROVAL", by |-> "system",
                              reason |-> Null, sessionId |-> sid])]

StopRunUpdate(task, sessionIndex, sid, now) ==
    [task EXCEPT
       !.runSessions[sessionIndex].endedAt = now,
       !.runSessions[sessionIndex].status = "stopped",
       !.status = "WAITING_APPROVAL",
       !.updatedAt = now,
       !.history = Append(@, [at |-> now, from |-> task.status,
                              to |-> "WAITING_APPROVAL", by |-> "system",
                              reason |-> Null, sessionId |-> sid])]

stopRunWith(p, sessionIds) ==
    /\ Start(p)
    /\ \E id \in TaskIds, sid \in sessionIds :
         LET tasks == readTasks(doc)
             index == findIndex(tasks, id) IN
         IF index = 0
         THEN ThrowSession(p, "stopRun", id, sid, ErrTaskNotFound) /\ UNCHANGED clock
         ELSE LET sessionIndex == findSessionIndex(tasks[index].runSessions, sid) IN
              IF sessionIndex = 0
              THEN ThrowSession(p, "stopRun", id, sid, ErrSessionNotFound) /\ UNCHANGED clock
              ELSE \E now \in Nows :
                     /\ clock' = now
                     /\ GoWrite(p, Op("stopRun", id, sid),
                                [tasks EXCEPT ![index] =
                                    StopRunUpdate(@, sessionIndex, sid, now)])
    /\ UNCHANGED <<doc, tmp, lock, nextId, nextSid, createdOk, quiet, prevClaim, committed, active, parked, projects, taskStores>>

stopRun(p) == stopRunWith(p, SessionIds)

\* ---------------------------------------------------------------- addLog
LogTypeInputs == {"milestone"}

\* addLog putting the entry in front of the logs
AddLogUpdateFront(task, sessionIndex, type, now) ==
    [task EXCEPT
       !.runSessions[sessionIndex].logs =
           <<[timestamp |-> now, message |-> "msg", type |-> type]>> \o @,
       !.updatedAt = now]

AddLogUpdate(task, sessionIndex, type, now) ==
    [task EXCEPT
       !.runSessions[sessionIndex].logs =
           Append(@, [timestamp |-> now, message |-> "msg", type |-> type]),
       !.updatedAt = now]

addLog(p) ==
    /\ Start(p)
    /\ \E id \in TaskIds, sid \in SessionIds, type \in LogTypeInputs :
         LET tasks == readTasks(doc)
             index == findIndex(tasks, id) IN
         IF index = 0
         THEN ThrowSession(p, "addLog", id, sid, ErrTaskNotFound) /\ UNCHANGED clock
         ELSE LET sessionIndex == findSessionIndex(tasks[index].runSessions, sid) IN
              IF sessionIndex = 0
              THEN ThrowSession(p, "addLog", id, sid, ErrSessionNotFound) /\ UNCHANGED clock
              ELSE \E now \in Nows :
                     /\ clock' = now
                     /\ GoWrite(p, Op("addLog", id, sid),
                                [tasks EXCEPT ![index] =
                                    AddLogUpdate(@, sessionIndex, type, now)])
    /\ UNCHANGED <<doc, tmp, lock, nextId, nextSid, createdOk, quiet, prevClaim, committed, active, parked, projects, taskStores>>

\* ------------------------------------------------------------- listTasks
\* filters: a set is empty when the filter is not given; limit 0 and cursor 0
\* stand for an omitted limit and cursor
NoFilters == [status |-> {}, category |-> {}, priority |-> {}, limit |-> 0, cursor |-> 0]

\* Array.prototype.filter
RECURSIVE filterTasks(_, _)
filterTasks(tasks, f) ==
    IF tasks = <<>> THEN <<>>
    ELSE LET t == Head(tasks)
             keep == /\ (f.status # {} => t.status \in f.status)
                     /\ (f.category # {} => t.category \in f.category)
                     /\ (f.priority # {} => t.priority \in f.priority)
         IN (IF keep THEN <<t>> ELSE <<>>) \o filterTasks(Tail(tasks), f)

\* a comparator that puts the youngest first within a priority
compareTasksNewestFirst(a, b) ==
    LET pDiff == priorityOrder[a.priority] - priorityOrder[b.priority] IN
    IF pDiff # 0 THEN pDiff ELSE b.createdAt - a.createdAt

\* the comparator of tasks.sort
compareTasks(a, b) ==
    LET pDiff == priorityOrder[a.priority] - priorityOrder[b.priority] IN
    IF pDiff # 0 THEN pDiff ELSE a.createdAt - b.createdAt

\* Array.prototype.sort is stable: an element goes behind its equals
RECURSIVE insertSorted(_, _)
insertSorted(sorted, t) ==
    IF sorted = <<>> THEN <<t>>
    ELSE IF compareTasks(Head(sorted), t) <= 0
         THEN <<Head(sorted)>> \o insertSorted(Tail(sorted), t)
         ELSE <<t>> \o sorted

RECURSIVE sortTasks(_)
sortTasks(tasks) ==
    IF tasks = <<>> THEN <<>>
    ELSE insertSorted(sortTasks(SubSeq(tasks, 1, Len(tasks) - 1)), tasks[Len(tasks)])

\* Array.prototype.slice(start, end)
slice(a, start, end) ==
    LET n == Len(a)
        clamp(k) == IF k < 0 THEN (IF n + k < 0 THEN 0 ELSE n + k)
                    ELSE (IF k > n THEN n ELSE k)
    IN SubSeq(a, clamp(start) + 1, clamp(end))

\* the session whose logs the summary shows: the running one, else the last
RECURSIVE firstRunning(_, _)
firstRunning(sessions, i) ==
    IF i > Len(sessions) THEN 0
    ELSE IF sessions[i].status = "running" THEN i
    ELSE firstRunning(sessions, i + 1)

\* the summary showing the first entries of the session
recentLogsOldest(t) ==
    IF Len(t.runSessions) > 0
    THEN LET a == firstRunning(t.runSessions, 1)
             lastSession == t.runSessions[IF a # 0 THEN a ELSE Len(t.runSessions)]
         IN IF Len(lastSession.logs) > 0
            THEN slice(lastSession.logs, 0, RecentLogCount)
            ELSE <<>>
    ELSE <<>>

recentLogs(t) ==
    IF Len(t.runSessions) > 0
    THEN LET a == firstRunning(t.runSessions, 1)
             lastSession == t.runSessions[IF a # 0 THEN a ELSE Len(t.runSessions)]
         IN IF Len(lastSession.logs) > 0
            THEN slice(lastSession.logs, 0 - RecentLogCount, Len(lastSession.logs))
            ELSE <<>>
    ELSE <<>>

summary(t) ==
    [id |-> t.id, title |-> t.title, status |-> t.status, category |-> t.category,
     priority |-> t.priority, updatedAt |-> t.updatedAt, recentLogs |-> recentLogs(t)]

listTasks(tasks0, f) ==
    LET tasks == sortTasks(filterTasks(tasks0, f))
        limit == IF f.limit # 0 THEN f.limit ELSE DefaultLimit
        cursorIndex == IF f.cursor # 0 THEN findIndex(tasks, f.cursor) ELSE 0
        startIndex == cursorIndex
        paginatedTasks == slice(tasks, startIndex, startIndex + limit)
        hasMore == startIndex + limit < Len(tasks)
    IN [items |-> [i \in 1..Len(paginatedTasks) |-> summary(paginatedTasks[i])],
        nextCursor |-> IF hasMore /\ Len(paginatedTasks) > 0
                       THEN paginatedTasks[Len(paginatedTasks)].id ELSE 0]

\* tasks.find(t => t.id === id) || null
findTask(tasks, id) ==
    LET i == findIndex(tasks, id) IN IF i = 0 THEN <<>> ELSE <<tasks[i]>>

ListInputs == {NoFilters, [NoFilters EXCEPT !.limit = 1]}

Return(p, kind, id, value, seq) ==
    /\ result' = [result EXCEPT ![p] = Result(kind, id, "ok", value, seq)]
    /\ UNCHANGED <<doc, tmp, lock, local, clock, nextId, nextSid, stale, createdOk,
                   committed, active, parked, projects, taskStores>>

\* a read on a value that is no array: tasks.filter / sort / find is not a function
ThrowType(p, kind, id) ==
    /\ Throw(p, kind, id, ErrType)
    /\ UNCHANGED <<doc, tmp, lock, clock, nextId, nextSid, createdOk, committed, active, parked, projects, taskStores>>

listTasksWith(p, inputs) ==
    /\ Start(p)
    /\ \E f \in inputs :
         IF isArray(doc)
         THEN Return(p, "listTasks", 0, <<listTasks(readTasks(doc), f)>>, opsLeft)
         ELSE ThrowType(p, "listTasks", 0)
    /\ UNCHANGED <<pc, op, quiet, prevClaim, committed, active, parked, projects, taskStores>>

listTasksCall(p) == listTasksWith(p, ListInputs)

getTaskWith(p, ids) ==
    /\ Start(p)
    /\ \E id \in ids :
         IF isArray(doc)
         THEN Return(p, "getTask", id, findTask(readTasks(doc), id), opsLeft)
         ELSE ThrowType(p, "getTask", id)
    /\ UNCHANGED <<pc, op, quiet, prevClaim, committed, active, parked, projects, taskStores>>

getTask(p) == getTaskWith(p, TaskIds)

\* a caller that starts without a cursor and follows nextCursor until it is
\* null: the items of its pages, one after the other
RECURSIVE followPages(_, _, _, _)
followPages(tasks, f, cursor, fuel) ==
    LET page == listTasks(tasks, [f EXCEPT !.cursor = cursor]) IN
    IF page.nextCursor = 0 \/ fuel = 0 THEN page.items
    ELSE page.items \o followPages(tasks, f, page.nextCursor, fuel - 1)

listPages(p, inputs) ==
    /\ Start(p)
    /\ \E f \in inputs :
         IF isArray(doc)
         THEN Return(p, "listPages", 0,
                     <<[filter |-> f,
                        items |-> followPages(readTasks(doc), f, 0,
                                              Len(readTasks(doc)) + 1)]>>,
                     opsLeft)
         ELSE ThrowType(p, "listPages", 0)
    /\ UNCHANGED <<pc, op, quiet, prevClaim, committed, active, parked, projects, taskStores>>

\* --------------------------------------------------------- claimNextTask
ClaimCategoryInputs == {{}}
ClaimPriorityInputs == {{}, {"LOW"}}

\* a claim that looks at tasks of every status
ClaimFiltersAnyStatus(categories, priorities) ==
    [NoFilters EXCEPT !.category = categories, !.priority = priorities]

ClaimFilters(categories, priorities) ==
    [NoFilters EXCEPT !.status = {"BACKLOG"}, !.category = categories,
                      !.priority = priorities]

\* the call ends: remember what it returned
ClaimDone(p, categories, priorities, id, value, seq) ==
    /\ Return(p, "claimNextTask", id, value, seq)
    /\ prevClaim' = [prevClaim EXCEPT ![p] =
                       [categories |-> categories, priorities |-> priorities,
                        value |-> value]]

\* const result = await this.listTasks(filters)
claimListWith(p, categoryInputs, priorityInputs) ==
    /\ Start(p)
    /\ \E categories \in categoryInputs, priorities \in priorityInputs :
         LET res == listTasks(readTasks(doc), ClaimFilters(categories, priorities))
             again == /\ quiet[p] >= 1
                      /\ prevClaim[p].categories = categories
                      /\ prevClaim[p].priorities = priorities
         IN /\ quiet' = [quiet EXCEPT ![p] = IF again THEN 2 ELSE 1]
            /\ IF ~isArray(doc)
               THEN /\ ThrowType(p, "claimNextTask", 0)
                    /\ UNCHANGED prevClaim
               ELSE IF Len(res.items) = 0
               THEN /\ ClaimDone(p, categories, priorities, 0, <<>>, opsLeft)
                    /\ UNCHANGED <<pc, op>>
               ELSE /\ pc' = [pc EXCEPT ![p] = "claimGet"]
                    /\ op' = [op EXCEPT ![p] =
                                [Op("claimNextTask", res.items[1].id, 0) EXCEPT
                                   !.categories = categories,
                                   !.priorities = priorities]]
                    /\ UNCHANGED <<doc, tmp, lock, local, result, clock, nextId,
                                   nextSid, stale, createdOk, prevClaim, committed, active, parked, projects, taskStores>>

claimList(p) == claimListWith(p, ClaimCategoryInputs, ClaimPriorityInputs)

\* a claim that also moves the task to IN_PROGRESS
claimGetStarting(p) ==
    /\ pc[p] = "claimGet"
    /\ pc' = [pc EXCEPT ![p] = "idle"]
    /\ op' = [op EXCEPT ![p] = NoOp]
    /\ LET tasks == readTasks(doc)
           i == findIndex(tasks, op[p].id)
       IN /\ doc' = IF i = 0 THEN doc
                    ELSE CompleteFile([tasks EXCEPT ![i].status = "IN_PROGRESS"])
          /\ result' = [result EXCEPT ![p] =
                Result("claimNextTask", op[p].id, "ok", findTask(tasks, op[p].id),
                       op[p].seq)]
          /\ prevClaim' = [prevClaim EXCEPT ![p] =
                [categories |-> op[p].categories, priorities |-> op[p].priorities,
                 value |-> findTask(tasks, op[p].id)]]
    /\ UNCHANGED <<tmp, lock, local, clock, nextId, nextSid, stale, createdOk,
                   committed, active, parked, projects, taskStores, opsLeft, quiet>>

\* return this.getTask(taskId)
claimGet(p) ==
    /\ pc[p] = "claimGet"
    /\ pc' = [pc EXCEPT ![p] = "idle"]
    /\ op' = [op EXCEPT ![p] = NoOp]
    /\ ClaimDone(p, op[p].categories, op[p].priorities, op[p].id,
                 findTask(readTasks(doc), op[p].id), op[p].seq)
    /\ UNCHANGED <<opsLeft, quiet>>

\* ------------------------------------------- acquireLock and writeTasks
\* the marker opened without the exclusive flag ('w' for 'wx')
acquireLockNotExclusive(p) ==
    /\ pc[p] = "acquire"
    /\ lock' = p
    /\ pc' = [pc EXCEPT ![p] = "locked"]
    /\ UNCHANGED <<doc, tmp, op, local, result, clock, nextId, nextSid, opsLeft,
                   stale, createdOk, quiet, prevClaim, committed, active, parked, projects, taskStores>>

\* fs.openSync(lockPath, 'wx') creates the marker
acquireLock(p) ==
    /\ pc[p] = "acquire"
    /\ lock = 0
    /\ lock' = p
    /\ pc' = [pc EXCEPT ![p] = "locked"]
    /\ UNCHANGED <<doc, tmp, op, local, result, clock, nextId, nextSid, opsLeft,
                   stale, createdOk, quiet, prevClaim, committed, active, parked, projects, taskStores>>

\* openSync succeeded, fs.writeFileSync(fd, pid) throws: the error is not
\* EEXIST, so acquireLock rethrows it; nothing unlinks the marker
lockWriteFail(p) ==
    /\ pc[p] = "acquire"
    /\ lock = 0
    /\ lock' = p
    /\ pc' = [pc EXCEPT ![p] = "idle"]
    /\ result' = [result EXCEPT ![p] =
                    Result(op[p].kind, op[p].id, ErrIO, <<>>, op[p].seq)]
    /\ op' = [op EXCEPT ![p] = NoOp]
    /\ local' = [local EXCEPT ![p] = <<>>]
    /\ stale' = [stale EXCEPT ![p] = FALSE]
    /\ UNCHANGED <<doc, tmp, clock, nextId, nextSid, opsLeft, createdOk, quiet,
                   prevClaim, committed, active, parked, projects, taskStores>>

\* how long one setTimeout(50) may take: the timer fires after the backoff or
\* later; a window is sampled in MaxRetries sleeps, or passes in one
SleepTimes == {d \in {LockTimeout \div MaxRetries, LockTimeout} : d >= LockBackoff}

\* EEXIST: setTimeout(50); waited is Date.now() - start when the timer fires
lockBusy(p) ==
    /\ pc[p] = "acquire"
    /\ lock # 0
    /\ pc' = [pc EXCEPT ![p] = "sleep"]
    /\ \E d \in SleepTimes :
         op' = [op EXCEPT ![p].waited =
                  IF @ + d > LockTimeout THEN LockTimeout ELSE @ + d]
    /\ UNCHANGED <<doc, tmp, lock, local, result, clock, nextId, nextSid,
                   opsLeft, stale, createdOk, quiet, prevClaim, committed, active, parked, projects, taskStores>>

\* the loop going round whatever time has passed
lockRetryUnbounded(p) ==
    /\ pc[p] = "sleep"
    /\ pc' = [pc EXCEPT ![p] = "acquire"]
    /\ UNCHANGED <<doc, tmp, lock, op, local, result, clock, nextId, nextSid,
                   opsLeft, stale, createdOk, quiet, prevClaim, committed, active, parked, projects, taskStores>>

\* Date.now() - start < timeout: try again
lockRetry(p) ==
    /\ pc[p] = "sleep"
    /\ op[p].waited < LockTimeout
    /\ pc' = [pc EXCEPT ![p] = "acquire"]
    /\ UNCHANGED <<doc, tmp, lock, op, local, result, clock, nextId, nextSid,
                   opsLeft, stale, createdOk, quiet, prevClaim, committed, active, parked, projects, taskStores>>

\* the loop ends: throw new Error('Failed to acquire lock: timeout')
lockTimeout(p) ==
    /\ pc[p] = "sleep"
    /\ op[p].waited >= LockTimeout
    /\ pc' = [pc EXCEPT ![p] = "idle"]
    /\ result' = [result EXCEPT ![p] =
                    Result(op[p].kind, op[p].id, ErrLock, <<>>, op[p].seq)]
    /\ op' = [op EXCEPT ![p] = NoOp]
    /\ local' = [local EXCEPT ![p] = <<>>]
    /\ stale' = [stale EXCEPT ![p] = FALSE]
    /\ UNCHANGED <<doc, tmp, lock, clock, nextId, nextSid, opsLeft, createdOk,
                   quiet, prevClaim, committed, active, parked, projects, taskStores>>

\* the document written in place
WriteTargetInPlace(p) == "doc"

\* the file the bytes of writeFileSync go to
WriteTarget(p) == "tmp"

\* fs.writeFileSync(tmpPath, ...) has opened and truncated the file
writeBegin(p) ==
    /\ pc[p] = "locked"
    /\ pc' = [pc EXCEPT ![p] = "writing"]
    /\ IF WriteTarget(p) = "tmp"
       THEN tmp' = PartialFile(local[p]) /\ UNCHANGED doc
       ELSE doc' = PartialFile(local[p]) /\ UNCHANGED tmp
    /\ UNCHANGED <<lock, op, local, result, clock, nextId, nextSid, opsLeft,
                   stale, createdOk, quiet, prevClaim, committed, active, parked, projects, taskStores>>

\* fs.writeFileSync has written the last byte
writeEnd(p) ==
    /\ pc[p] = "writing"
    /\ pc' = [pc EXCEPT ![p] = "written"]
    /\ IF WriteTarget(p) = "tmp"
       THEN tmp' = CompleteFile(local[p]) /\ UNCHANGED doc
       ELSE doc' = CompleteFile(local[p]) /\ UNCHANGED tmp
    /\ UNCHANGED <<lock, op, local, result, clock, nextId, nextSid, opsLeft,
                   stale, createdOk, quiet, prevClaim, committed, active, parked, projects, taskStores>>

\* the other operations that are between their read and their rename
InFlight(p) == {q \in Procs \ {p} : pc[q] \in {"acquire", "sleep", "locked", "writing", "written"}}

\* the rename not waiting for the write to end
renameUnawaited(p) ==
    /\ pc[p] \in {"writing", "written"}
    /\ pc' = [pc EXCEPT ![p] = "renamed"]
    /\ doc' = tmp
    /\ tmp' = Absent
    /\ stale' = [q \in Procs |-> IF q \in InFlight(p) THEN TRUE ELSE stale[q]]
    /\ quiet' = [q \in Procs |-> 0]
    /\ committed' = doc'
    /\ UNCHANGED <<lock, op, local, result, clock, nextId, nextSid, opsLeft,
                   createdOk, prevClaim, active, parked, projects, taskStores>>

\* fs.renameSync(tmpPath, tasksPath)
rename(p) ==
    /\ pc[p] = "written"
    /\ pc' = [pc EXCEPT ![p] = "renamed"]
    /\ doc' = tmp
    /\ tmp' = Absent
    /\ stale' = [q \in Procs |-> IF q \in InFlight(p) THEN TRUE ELSE stale[q]]
    /\ quiet' = [q \in Procs |-> 0]
    /\ committed' = doc'
    /\ UNCHANGED <<lock, op, local, result, clock, nextId, nextSid, opsLeft,
                   createdOk, prevClaim, active, parked, projects, taskStores>>

\* what the operation returns once writeTasks is through
ReturnValue(p) ==
    LET i == findIndex(local[p], op[p].id) IN
    CASE op[p].kind = "createTask" -> <<local[p][Len(local[p])]>>
      [] op[p].kind = "deleteTask" -> <<>>
      [] op[p].kind = "startRun" ->
            LET s == local[p][i].runSessions IN <<s[Len(s)]>>
      [] op[p].kind = "addLog" ->
            LET s == local[p][i].runSessions
                l == s[findSessionIndex(s, op[p].sid)].logs IN <<l[Len(l)]>>
      [] OTHER -> <<local[p][i]>>

\* finally { unlock() } after the rename, then the operation returns
unlock(p) ==
    /\ pc[p] = "renamed"
    /\ pc' = [pc EXCEPT ![p] = "idle"]
    /\ lock' = 0
    /\ result' = [result EXCEPT ![p] =
                    Result(op[p].kind, op[p].id, "ok", ReturnValue(p), op[p].seq)]
    /\ createdOk' = IF op[p].kind = "createTask"
                    THEN createdOk \cup {op[p].id} ELSE createdOk
    /\ op' = [op EXCEPT ![p] = NoOp]
    /\ local' = [local EXCEPT ![p] = <<>>]
    /\ UNCHANGED <<doc, tmp, clock, nextId, nextSid, opsLeft, stale, quiet,
                   prevClaim, committed, active, parked, projects, taskStores>>

\* JSON.stringify, writeFileSync or renameSync throws: finally { unlock() },
\* the error goes up
writeFail(p) ==
    /\ pc[p] \in {"locked", "writing", "written"}
    /\ pc' = [pc EXCEPT ![p] = "idle"]
    /\ lock' = 0
    /\ result' = [result EXCEPT ![p] =
                    Result(op[p].kind, op[p].id, ErrIO, <<>>, op[p].seq)]
    /\ op' = [op EXCEPT ![p] = NoOp]
    /\ local' = [local EXCEPT ![p] = <<>>]
    /\ stale' = [stale EXCEPT ![p] = FALSE]
    /\ UNCHANGED <<doc, tmp, clock, nextId, nextSid, opsLeft, createdOk, quiet,
                   prevClaim, committed, active, parked, projects, taskStores>>

\* the process dies while it holds the lock
crash(p) ==
    /\ pc[p] \in {"locked", "writing", "written", "renamed"}
    /\ pc' = [pc EXCEPT ![p] = IF pc[p] = "renamed" THEN "deadAfterRename" ELSE "dead"]
    /\ UNCHANGED <<doc, tmp, lock, op, local, result, clock, nextId, nextSid,
                   opsLeft, stale, createdOk, quiet, prevClaim, committed, active, parked, projects, taskStores>>

Write(p) ==
    \/ acquireLock(p)
    \/ lockWriteFail(p)
    \/ lockBusy(p)
    \/ lockRetry(p)
    \/ lockTimeout(p)
    \/ writeBegin(p)
    \/ writeEnd(p)
    \/ rename(p)
    \/ unlock(p)
    \/ writeFail(p)
    \/ crash(p)

Next ==
    \E p \in Procs :
        \/ createTask(p)
        \/ updateTask(p)
        \/ deleteTask(p)
        \/ updateStatus(p)
        \/ startRun(p)
        \/ stopRun(p)
        \/ addLog(p)
        \/ listTasksCall(p)
        \/ getTask(p)
        \/ claimList(p)
        \/ claimGet(p)
        \/ Write(p)

Spec == Init /\ [][Next]_vars

\* concurrent createTask calls only
NextCreate ==
    \E p \in Procs :
        \/ createTask(p)
        \/ Write(p)

SpecCreate == Init /\ [][NextCreate]_vars

\* ------------------------------------------- the webview provider (UI)
\* what the user does with the branch dialogs of the play button, and what git
\* does: the quick pick dismissed, the current branch picked, a new branch
\* picked and named, the name box dismissed, checkout -b failing
RunChoices == {"dismiss", "current", "new", "dismissName", "gitFails"}

\* `run_${Date.now().toString(36)}`: the text made from the clock is not the
\* one startRun makes from a uuid; nothing keeps the two from being equal or
\* makes them equal
TimeIds == 1..(MaxSessions + 1)
ErrBranch == "Branch already exists"

\* the play button as it was before: the run is started at once
handleRunTaskStarting(p) ==
    /\ Start(p)
    /\ \E id \in TaskIds :
         LET tasks == readTasks(doc)
             index == findIndex(tasks, id) IN
         /\ index # 0
         /\ doc' = CompleteFile([tasks EXCEPT ![index].status = "IN_PROGRESS"])
         /\ result' = [result EXCEPT ![p] =
                         Result("runTask", id, "ok", <<"started">>, opsLeft)]
    /\ UNCHANGED <<tmp, lock, pc, op, local, clock, nextId, nextSid, stale,
                   createdOk, quiet, prevClaim, committed, active, parked, projects, taskStores>>

\* handleRunTask: getTask, the branch dialogs, the prompt on the clipboard and
\* the taskRunStarted message, both with the sessionId made from Date.now()
handleRunTask(p) ==
    /\ Start(p)
    /\ \E id \in TaskIds, choice \in RunChoices, sessionId \in TimeIds :
         LET task == findTask(readTasks(doc), id) IN
         IF task = <<>>
         THEN Throw(p, "runTask", id, ErrTaskNotFound)
         ELSE IF task[1].branchTarget.type # "current" /\ choice = "gitFails"
         THEN Throw(p, "runTask", id, ErrBranch)
         ELSE /\ result' = [result EXCEPT ![p] =
                   IF /\ task[1].branchTarget.type # "current"
                      /\ choice \in {"dismiss", "dismissName"}
                   THEN Result("runTask", id, "ok", <<>>, opsLeft)
                   ELSE [Result("runTask", id, "ok", <<"taskRunStarted">>, opsLeft)
                            EXCEPT !.sid = sessionId]]
              /\ UNCHANGED <<pc, op, local, stale>>
    /\ UNCHANGED <<doc, tmp, lock, clock, nextId, nextSid, createdOk, quiet,
                   prevClaim, committed, active, parked, projects, taskStores>>

\* the empty string the card of the In Progress column passes as sessionId
EmptyText == 0 - 2

\* the stop button of a card: Column renders it for the tasks of the
\* IN_PROGRESS column with onStopTask(task.id, ''), the app posts stopTask
\* {id, sessionId} and the provider calls stopRun(id, sessionId)
cardStop(p) ==
    \E id \in TaskIds :
        /\ findTask(readTasks(doc), id) # <<>>
        /\ findTask(readTasks(doc), id)[1].status = "IN_PROGRESS"
        /\ stopRunWith(p, {EmptyText})
        /\ Names(p, id, EmptyText)

\* the files of project k
DirOf(k) == IF k = active THEN Dir(doc, tmp, lock) ELSE parked[k]

\* case 'switchProject': activeProjectId = newProjectId when the registry has
\* it; getActiveTaskStore() then returns the store of that directory. The
\* message is handled between two store operations of the provider.
switchProjectWith(p, ids) ==
    /\ pc[p] = "idle"
    /\ \E newProjectId \in ids :
         /\ result' = [result EXCEPT ![p] =
                         Result("switchProject", newProjectId, "ok", <<>>, opsLeft)]
         /\ IF findProject(projects, newProjectId) # 0 /\ newProjectId # active
            THEN /\ active' = newProjectId
                 /\ parked' = [parked EXCEPT ![active] = Dir(doc, tmp, lock),
                                             ![newProjectId] = EmptyDir]
                 /\ doc' = parked[newProjectId].doc
                 /\ tmp' = parked[newProjectId].tmp
                 /\ lock' = parked[newProjectId].lock
                 /\ committed' = parked[newProjectId].doc
            ELSE UNCHANGED <<doc, tmp, lock, committed, active, parked>>
    /\ UNCHANGED <<pc, op, local, clock, nextId, nextSid, opsLeft, stale,
                   createdOk, quiet, prevClaim, projects, taskStores>>

\* a switch that changes the id and keeps the store
switchProjectKeepStore(p) ==
    /\ pc[p] = "idle"
    /\ \E newProjectId \in 1..(NumProjects + 1) :
         /\ result' = [result EXCEPT ![p] =
                         Result("switchProject", newProjectId, "ok", <<>>, opsLeft)]
         /\ active' = IF newProjectId \in ProjectIds THEN newProjectId ELSE active
    /\ UNCHANGED <<doc, tmp, lock, pc, op, local, clock, nextId, nextSid, opsLeft,
                   stale, createdOk, quiet, prevClaim, committed, parked, projects, taskStores>>

switchProject(p) == switchProjectWith(p, 1..(NumProjects + 1))

\* a task of another workspace folder: its id is none the messages name
ForeignTask(k) ==
    NewTask(MaxTasks + k, [title |-> MinTitleLen, description |-> Null,
                           category |-> "UI", priority |-> "LOW",
                           branchTarget |-> [type |-> "current", name |-> Null]], 0)

UICreateInputs ==
    [title : {MinTitleLen}, description : {Null}, category : {"CORE"},
     priority : {"HIGH"},
     branchTarget : {[type |-> "current", name |-> Null],
                     [type |-> "new", name |-> "feat/x"]}]

InitUI ==
    /\ doc \in InitialDocs
    /\ committed = doc
    /\ tmp = Absent
    /\ lock = 0
    /\ pc = [p \in Procs |-> "idle"]
    /\ op = [p \in Procs |-> NoOp]
    /\ local = [p \in Procs |-> <<>>]
    /\ result = [p \in Procs |-> NoResult]
    /\ clock = 0
    /\ nextId = Len(readTasks(doc)) + 1
    /\ nextSid = SessionCount(readTasks(doc)) + 1
    /\ opsLeft = MaxOps
    /\ stale = [p \in Procs |-> FALSE]
    /\ createdOk = {readTasks(doc)[i].id : i \in 1..Len(readTasks(doc))}
    /\ quiet = [p \in Procs |-> 0]
    /\ prevClaim = [p \in Procs |-> NoClaim]
    /\ active = 1
    /\ parked \in [ProjectIds ->
                      {EmptyDir} \cup
                      {Dir(CompleteFile(<<ForeignTask(k)>>), Absent, 0) : k \in ProjectIds}]
    /\ parked[1] = EmptyDir
    /\ projects = OpenProjects
    /\ taskStores = OpenStores

\* the messages of the webview, handled by the extension host
NextUI ==
    \E p \in {1} :
        \/ switchProject(p)
        \/ createTaskWith(p, UICreateInputs)
        \/ updateTask(p)
        \/ deleteTask(p)
        \/ updateStatus(p)
        \/ handleRunTask(p)
        \/ stopRun(p)
        \/ cardStop(p)
        \/ getTask(p)
        \/ Write(p)

SpecUI == InitUI /\ [][NextUI]_vars

\* ------------------------------------------- the registry of the provider
\* workspace folders: two with the ids 1 and 2 and two whose paths have the
\* same hash (as "Aa" and "BB" have)
Folders == {<<1>>, <<2>>, <<1, 33>>, <<2, 2>>}
MaxFolders == 3
DefaultRoot == <<1>>
AllProjectIds == {generateProjectId(f) : f \in Folders}

\* vscode.workspace.workspaceFolders: undefined or a list of distinct folders
FolderLists ==
    {ws \in UNION {[1..n -> Folders] : n \in 0..MaxFolders} :
        \A i, j \in DOMAIN ws : i # j => ws[i] # ws[j]}

\* activeProjectId before the first initializeProjects: ''
NoProject == 0 - 1

\* taskStores after taskStores.clear() and one set(id, store) per entry of the
\* registry, in order: a later entry with the same id replaces the store
StoresOf(registry) ==
    [k \in {registry[i].id : i \in 1..Len(registry)} |->
        registry[CHOOSE i \in 1..Len(registry) :
                    /\ registry[i].id = k
                    /\ \A j \in (i + 1)..Len(registry) : registry[j].id # k].path]

\* initializeProjects keeping an activeProjectId that is set, without looking
\* it up in the new registry
initializeProjectsKeepActive(activeProjectId, workspaceFolders) ==
    LET registry == IF Len(workspaceFolders) > 0
                    THEN [i \in 1..Len(workspaceFolders) |-> Project(workspaceFolders[i])]
                    ELSE <<Project(DefaultRoot)>>
    IN [projects |-> registry, taskStores |-> StoresOf(registry),
        activeProjectId |->
            IF activeProjectId = NoProject THEN registry[1].id ELSE activeProjectId]

\* initializeProjects: the registry, the stores and the activeProjectId it
\* leaves
initializeProjects(activeProjectId, workspaceFolders) ==
    LET registry == IF Len(workspaceFolders) > 0
                    THEN [i \in 1..Len(workspaceFolders) |-> Project(workspaceFolders[i])]
                    ELSE <<Project(DefaultRoot)>>
    IN [projects |-> registry, taskStores |-> StoresOf(registry),
        activeProjectId |->
            IF Len(workspaceFolders) > 0
            THEN IF activeProjectId = NoProject \/ findProject(registry, activeProjectId) = 0
                 THEN registry[1].id ELSE activeProjectId
            ELSE generateProjectId(DefaultRoot)]

\* onDidChangeWorkspaceFolders: initializeProjects(), then the two states are
\* sent; the event is handled between two store operations of the provider
foldersChanged(p) ==
    /\ pc[p] = "idle"
    /\ \E workspaceFolders \in FolderLists :
         LET r == initializeProjects(active, workspaceFolders) IN
         /\ projects' = r.projects
         /\ taskStores' = r.taskStores
         /\ IF r.activeProjectId # active
            THEN /\ active' = r.activeProjectId
                 /\ parked' = [parked EXCEPT ![active] = Dir(doc, tmp, lock),
                                             ![r.activeProjectId] = EmptyDir]
                 /\ doc' = parked[r.activeProjectId].doc
                 /\ tmp' = parked[r.activeProjectId].tmp
                 /\ lock' = parked[r.activeProjectId].lock
                 /\ committed' = parked[r.activeProjectId].doc
            ELSE UNCHANGED <<doc, tmp, lock, committed, active, parked>>
    /\ result' = [result EXCEPT ![p] =
                    Result("foldersChanged", 0, "ok", <<>>, opsLeft)]
    /\ UNCHANGED <<pc, op, local, clock, nextId, nextSid, opsLeft, stale,
                   createdOk, quiet, prevClaim>>

\* the state the constructor leaves: initializeProjects() on the folders open
\* at that time
InitProjects ==
    /\ \E workspaceFolders \in FolderLists :
         LET r == initializeProjects(NoProject, workspaceFolders) IN
         /\ projects = r.projects
         /\ taskStores = r.taskStores
         /\ active = r.activeProjectId
    /\ doc = Absent
    /\ committed = doc
    /\ tmp = Absent
    /\ lock = 0
    /\ pc = [p \in Procs |-> "idle"]
    /\ op = [p \in Procs |-> NoOp]
    /\ local = [p \in Procs |-> <<>>]
    /\ result = [p \in Procs |-> NoResult]
    /\ clock = 0
    /\ nextId = 1
    /\ nextSid = 1
    /\ opsLeft = MaxOps
    /\ stale = [p \in Procs |-> FALSE]
    /\ createdOk = {}
    /\ quiet = [p \in Procs |-> 0]
    /\ prevClaim = [p \in Procs |-> NoClaim]
    /\ parked = [k \in AllProjectIds |-> EmptyDir]

NextProjects ==
    \E p \in {1} :
        \/ switchProjectWith(p, AllProjectIds \cup {0})
        \/ foldersChanged(p)

SpecProjects == InitProjects /\ [][NextProjects]_vars

\* ------------------------------------------------- the MCP tool handlers
\* the store methods the tools of the server call
ToolKinds ==
    {"listTasks", "getTask", "createTask", "updateTask", "updateStatus",
     "claimNextTask", "startRun", "stopRun", "addLog"}

\* String(error) of an Error object
StringOfError(message) == "Error: " \o message

\* what the CallToolRequestSchema handler returns for what the store method
\* returned or threw: the error text of the payload (Null when it has none)
\* and the isError flag
toolReply(r) ==
    IF r.status # "ok"
    THEN [error |-> StringOfError(r.status), isError |-> TRUE]
    ELSE IF r.kind = "getTask" /\ r.value = <<>>
    THEN [error |-> ErrTaskNotFound, isError |-> TRUE]
    ELSE [error |-> Null, isError |-> FALSE]

\* --------------------------- createTask and updateTask on any input
\* titles of length 0 (the empty string), 2 and 3; branch targets of both
\* types, the new one without a name, with the empty name and with a name
AnyTitles == {0, 2, 3}
AnyBranchTargets ==
    {[type |-> "current", name |-> Null], [type |-> "new", name |-> Null],
     [type |-> "new", name |-> ""], [type |-> "new", name |-> "feat/x"]}
AnyCreateInputs ==
    [title : AnyTitles, description : {Null}, category : {"CORE"},
     priority : {"HIGH"}, branchTarget : AnyBranchTargets]
AnyUpdateInputs ==
    [title : {NoTitle} \cup AnyTitles, description : {Null}, category : {Null},
     priority : {Null}, branchTarget : {<<>>} \cup {<<b>> : b \in AnyBranchTargets}]

NextInput ==
    \E p \in Procs :
        \/ createTaskWith(p, AnyCreateInputs)
        \/ updateTaskWith(p, AnyUpdateInputs)
        \/ Write(p)

SpecInput == Init /\ [][NextInput]_vars

\* the steps of acquireLock; the event loop runs the pending continuation of
\* a live process: the timer of setTimeout(50) fires, the loop goes round
LockStep(p) ==
    \/ acquireLock(p)
    \/ lockWriteFail(p)
    \/ lockBusy(p)
    \/ lockRetry(p)
    \/ lockTimeout(p)

\* writeTasks is the same for every operation: createTask calls stand for them
SpecLive == Init /\ [][NextCreate]_vars /\ \A p \in Procs : WF_vars(LockStep(p))

\* ------------------------------------------ the read operations, applied
\* the documents a read may find: up to MaxListed tasks in any order of
\* priority and creation time (Date.now() is the wall clock, which may be
\* set back between two createTask calls), some of them moved on by
\* updateStatus; no file; an unreadable file; a torn file; a JSON text that
\* is no array
QueryCategories == {"CORE", "UI"}
QueryStatuses == {"BACKLOG", "FINISHED"}
QueryAttrs == [category : QueryCategories, priority : Priority,
               status : QueryStatuses, createdAt : 0..MaxClock]

QueryTask(id, a) ==
    LET t == NewTask(id, [title |-> MinTitleLen, description |-> Null,
                          category |-> a.category, priority |-> a.priority,
                          branchTarget |-> [type |-> "current", name |-> Null]],
                     a.createdAt)
    IN IF a.status = "BACKLOG" THEN t
       ELSE StatusUpdate(t, a.status, "user", Null, NoSession, a.createdAt)

QueryCollections(max) ==
    UNION {{[i \in 1..n |-> QueryTask(i, as[i])] : as \in [1..n -> QueryAttrs]} :
           n \in 0..max}

QueryDocs(max) ==
    {CompleteFile(tasks) : tasks \in QueryCollections(max)}
        \cup {Absent, Unreadable, NonArray, PartialFile(<<InitialTask>>)}

\* filters of the listTasks calls; the limit is any number
LimitInputs == {0 - 1, 0, 1, 2}
QueryFilters ==
    [status : {{}, {"BACKLOG"}}, category : {{}}, priority : {{}, {"MEDIUM", "LOW"}},
     limit : LimitInputs, cursor : {0}]
QueryClaimCategories == {{}, {"UI"}}
QueryClaimPriorities == {{}, {"MEDIUM", "LOW"}}

\* one read operation applied to a document nobody writes
InitQuery ==
    /\ doc \in QueryDocs(MaxListed)
    /\ committed = doc
    /\ tmp = Absent
    /\ lock = 0
    /\ pc = [p \in Procs |-> "idle"]
    /\ op = [p \in Procs |-> NoOp]
    /\ local = [p \in Procs |-> <<>>]
    /\ result = [p \in Procs |-> NoResult]
    /\ clock = MaxClock
    /\ nextId = Len(readTasks(doc)) + 1
    /\ nextSid = 1
    /\ opsLeft = 1
    /\ stale = [p \in Procs |-> FALSE]
    /\ createdOk = {readTasks(doc)[i].id : i \in 1..Len(readTasks(doc))}
    /\ quiet = [p \in Procs |-> 0]
    /\ prevClaim = [p \in Procs |-> NoClaim]
    /\ active = 1
    /\ parked = OneProject
    /\ projects = OpenProjects
    /\ taskStores = OpenStores

NextQuery ==
    \E p \in {1} :
        \/ listTasksWith(p, QueryFilters)
        \/ listPages(p, QueryFilters)
        \/ getTaskWith(p, 1..MaxListed)
        \/ claimListWith(p, QueryClaimCategories, QueryClaimPriorities)
        \/ claimGet(p)

SpecQuery == InitQuery /\ [][NextQuery]_vars

\* ----------------- one caller: createTask, startRun, addLog, stopRun
\* every valid CreateTaskInput of the model
ValidCreateInputs ==
    [title : {MinTitleLen, MinTitleLen + 1}, description : {Null, "d"},
     category : Category, priority : Priority,
     branchTarget : {[type |-> "current", name |-> Null],
                     [type |-> "new", name |-> "feat/x"]}]

\* the session startRun returned for the task createTask returned
RunSessionId(id) ==
    LET s == readTasks(doc)[findIndex(readTasks(doc), id)].runSessions
    IN s[Len(s)].sessionId

InitRun ==
    /\ doc \in InitialDocs
    /\ committed = doc
    /\ tmp = Absent
    /\ lock = 0
    /\ pc = [p \in Procs |-> "idle"]
    /\ op = [p \in Procs |-> NoOp]
    /\ local = [p \in Procs |-> <<>>]
    /\ result = [p \in Procs |-> NoResult]
    /\ clock = 0
    /\ nextId = Len(readTasks(doc)) + 1
    /\ nextSid = SessionCount(readTasks(doc)) + 1
    /\ opsLeft = MaxOps + MaxOps
    /\ stale = [p \in Procs |-> FALSE]
    /\ createdOk = {readTasks(doc)[i].id : i \in 1..Len(readTasks(doc))}
    /\ quiet = [p \in Procs |-> 0]
    /\ prevClaim = [p \in Procs |-> NoClaim]
    /\ active = 1
    /\ parked = OneProject
    /\ projects = OpenProjects
    /\ taskStores = OpenStores

\* writeTasks of a caller that is alone: the marker is never another's
WriteAlone(p) ==
    \/ acquireLock(p)
    \/ lockWriteFail(p)
    \/ writeBegin(p)
    \/ writeEnd(p)
    \/ rename(p)
    \/ unlock(p)
    \/ writeFail(p)
    \/ crash(p)

\* each call is made when the one before it has returned
NextRun ==
    \E p \in {1} :
        \/ result[p].kind = "none" /\ createTaskWith(p, ValidCreateInputs)
        \/ /\ Returned(p, "createTask")
           /\ startRun(p)
           /\ NamesTask(p, result[p].id)
        \/ /\ Returned(p, "startRun")
           /\ addLog(p)
           /\ Names(p, result[p].id, RunSessionId(result[p].id))
        \/ /\ Returned(p, "addLog")
           /\ stopRun(p)
           /\ Names(p, result[p].id, RunSessionId(result[p].id))
        \/ WriteAlone(p)

SpecRun == InitRun /\ [][NextRun]_vars

\* ------------------------------------- the play button and then the agent
\* the provider has announced a run of a task and nothing since
Announced(p) ==
    /\ pc[p] = "idle"
    /\ result[p].kind = "runTask"
    /\ result[p].status = "ok"
    /\ result[p].value # <<>>

\* process 1 is the extension host; process 2 is the MCP server, which the
\* agent calls as the prompt tells it: startRun on the task of the prompt,
\* then stopRun or addLog with the session id of the prompt
NextAgent ==
    \/ result[1].kind = "none" /\ handleRunTask(1)
    \/ /\ Announced(1) /\ result[2].kind = "none"
       /\ startRun(2)
       /\ NamesTask(2, result[1].id)
    \/ /\ Announced(1) /\ Returned(2, "startRun")
       /\ stopRun(2)
       /\ Names(2, result[1].id, result[1].sid)
    \/ /\ Announced(1) /\ Returned(2, "startRun")
       /\ addLog(2)
       /\ Names(2, result[1].id, result[1].sid)
    \/ WriteAlone(2)

SpecAgent == InitRun /\ [][NextAgent]_vars

\* ------------------------------------------------------- sendBoardState
\* the columns of the board, in the order sendBoardState lists them
BoardColumns == <<"BACKLOG", "IN_PROGRESS", "WAITING_APPROVAL", "FINISHED">>

\* taskStore.listTasks({ status: [column] }).items
columnItems(f, status) ==
    listTasks(readTasks(f), [NoFilters EXCEPT !.status = {status}]).items

\* sendBoardState: the first of its four listTasks calls; each call reads the
\* file anew
boardStart(p) ==
    /\ Start(p)
    /\ IF isArray(doc)
       THEN /\ pc' = [pc EXCEPT ![p] = "board"]
            /\ op' = [op EXCEPT ![p] = Op("sendBoardState", 0, 0)]
            /\ local' = [local EXCEPT ![p] = <<columnItems(doc, BoardColumns[1])>>]
            /\ UNCHANGED <<result, stale>>
       ELSE Throw(p, "sendBoardState", 0, ErrType)
    /\ UNCHANGED <<doc, tmp, lock, clock, nextId, nextSid, createdOk, quiet,
                   prevClaim, committed, active, parked, projects, taskStores>>

\* the next listTasks call of sendBoardState; after the fourth the boardState
\* message is sent
boardRead(p) ==
    /\ pc[p] = "board"
    /\ LET k == Len(local[p]) + 1 IN
       IF ~isArray(doc)
       THEN /\ result' = [result EXCEPT ![p] =
                            Result("sendBoardState", 0, ErrType, <<>>, op[p].seq)]
            /\ pc' = [pc EXCEPT ![p] = "idle"]
            /\ op' = [op EXCEPT ![p] = NoOp]
            /\ local' = [local EXCEPT ![p] = <<>>]
       ELSE IF k < Len(BoardColumns)
       THEN /\ local' = [local EXCEPT ![p] =
                           Append(@, columnItems(doc, BoardColumns[k]))]
            /\ UNCHANGED <<pc, op, result>>
       ELSE /\ result' = [result EXCEPT ![p] =
                            Result("sendBoardState", 0, "ok",
                                   <<Append(local[p], columnItems(doc, BoardColumns[k]))>>,
                                   op[p].seq)]
            /\ pc' = [pc EXCEPT ![p] = "idle"]
            /\ op' = [op EXCEPT ![p] = NoOp]
            /\ local' = [local EXCEPT ![p] = <<>>]
    /\ UNCHANGED <<doc, tmp, lock, clock, nextId, nextSid, opsLeft, stale, createdOk,
                   quiet, prevClaim, committed, active, parked, projects, taskStores>>

InitBoard ==
    /\ doc \in InitialDocs
    /\ committed = doc
    /\ tmp = Absent
    /\ lock = 0
    /\ pc = [p \in Procs |-> "idle"]
    /\ op = [p \in Procs |-> NoOp]
    /\ local = [p \in Procs |-> <<>>]
    /\ result = [p \in Procs |-> NoResult]
    /\ clock = 0
    /\ nextId = Len(readTasks(doc)) + 1
    /\ nextSid = SessionCount(readTasks(doc)) + 1
    /\ opsLeft = MaxOps
    /\ stale = [p \in Procs |-> FALSE]
    /\ createdOk = {readTasks(doc)[i].id : i \in 1..Len(readTasks(doc))}
    /\ quiet = [p \in Procs |-> 0]
    /\ prevClaim = [p \in Procs |-> NoClaim]
    /\ active = 1
    /\ parked = OneProject
    /\ projects = OpenProjects
    /\ taskStores = OpenStores

\* process 1 is the extension host building the board state; process 2 is the
\* MCP server writing to the same store
NextBoard ==
    \/ boardStart(1)
    \/ boardRead(1)
    \/ updateStatus(2)
    \/ startRun(2)
    \/ stopRun(2)
    \/ WriteAlone(2)

SpecBoard == InitBoard /\ [][NextBoard]_vars

\* ------------------------- one operation on a task in any stage of its life
\* a task created; started; started and stopped; then moved back to
\* IN_PROGRESS, or to FINISHED; started and moved back to BACKLOG; stopped and
\* started again
StartedTask == StartRunUpdate(InitialTask, 1, 0)
StoppedTask == StopRunUpdate(StartedTask, 1, 1, 0)
SeqTasks ==
    {InitialTask, StartedTask, StoppedTask,
     StatusUpdate(StoppedTask, "IN_PROGRESS", "agent", Null, NoSession, 0),
     StatusUpdate(StoppedTask, "FINISHED", "user", Null, NoSession, 0),
     StatusUpdate(StartedTask, "BACKLOG", "user", Null, NoSession, 0),
     StartRunUpdate(StoppedTask, MaxSessions, 0)}

\* a second task of the collection
OtherTask ==
    NewTask(MaxTasks, [title |-> MinTitleLen + 1, description |-> "d",
                       category |-> "API", priority |-> "MEDIUM",
                       branchTarget |-> [type |-> "new", name |-> "feat/x"]], 0)

SeqDocs ==
    {Absent}
        \cup {CompleteFile(<<t>>) : t \in SeqTasks}
        \cup {CompleteFile(<<t, OtherTask>>) : t \in SeqTasks}
        \cup {CompleteFile(<<OtherTask, t>>) : t \in SeqTasks}

MaxSessionId(tasks) ==
    LET sids == UNION {{t.runSessions[i].sessionId : i \in 1..Len(t.runSessions)} :
                       t \in {tasks[j] : j \in 1..Len(tasks)}}
    IN IF sids = {} THEN 0 ELSE CHOOSE s \in sids : \A r \in sids : r <= s

SeqUpdateInputs ==
    [title : {NoTitle, MinTitleLen + 1}, description : {Null, "e"},
     category : {Null, "UI"}, priority : {Null, "LOW"},
     branchTarget : {<<>>, <<[type |-> "new", name |-> "fix/y"]>>}]
SeqStatusInputs ==
    [status : Status, by : {"user", "agent"}, reason : {Null, "why"},
     sessionId : {NoSession, 1}]

InitSeq ==
    /\ doc \in SeqDocs
    /\ committed = doc
    /\ tmp = Absent
    /\ lock = 0
    /\ pc = [p \in Procs |-> "idle"]
    /\ op = [p \in Procs |-> NoOp]
    /\ local = [p \in Procs |-> <<>>]
    /\ result = [p \in Procs |-> NoResult]
    /\ clock = 0
    /\ nextId = IF Len(readTasks(doc)) > 1 THEN MaxTasks + 1 ELSE Len(readTasks(doc)) + 1
    /\ nextSid = MaxSessionId(readTasks(doc)) + 1
    /\ opsLeft = 1
    /\ stale = [p \in Procs |-> FALSE]
    /\ createdOk = {readTasks(doc)[i].id : i \in 1..Len(readTasks(doc))}
    /\ quiet = [p \in Procs |-> 0]
    /\ prevClaim = [p \in Procs |-> NoClaim]
    /\ active = 1
    /\ parked = OneProject
    /\ projects = OpenProjects
    /\ taskStores = OpenStores

NextSeq ==
    \E p \in {1} :
        \/ createTaskWith(p, ValidCreateInputs)
        \/ updateTaskWith(p, SeqUpdateInputs)
        \/ deleteTask(p)
        \/ updateStatusWith(p, SeqStatusInputs)
        \/ startRun(p)
        \/ stopRun(p)
        \/ addLog(p)
        \/ WriteAlone(p)

SpecSeq == InitSeq /\ [][NextSeq]_vars

\* ------------------------------- listTasks on tasks with sessions and logs
\* the k-th entry of a session is logged at time k - 1
RECURSIVE WithLogs(_, _, _)
WithLogs(task, sessionIndex, n) ==
    IF n <= 1 THEN task
    ELSE AddLogUpdate(WithLogs(task, sessionIndex, n - 1), sessionIndex,
                      "milestone", n - 1)

\* a session of the file: its status and the number of its log entries
LogShapes == [status : {"running", "stopped"}, logs : 0..MaxLogs]

\* the task whose sessions have these shapes; a file may hold a session with
\* no entry, readTasks takes it as it is
RECURSIVE LogTask(_)
LogTask(shapes) ==
    IF shapes = <<>> THEN InitialTask
    ELSE LET k == Len(shapes)
             started == StartRunUpdate(LogTask(SubSeq(shapes, 1, k - 1)), k, 0)
             logged == IF shapes[k].logs = 0
                       THEN [started EXCEPT !.runSessions[k].logs = <<>>]
                       ELSE WithLogs(started, k, shapes[k].logs)
         IN IF shapes[k].status = "stopped"
            THEN StopRunUpdate(logged, k, k, shapes[k].logs)
            ELSE logged

LogTasks ==
    {LogTask(shapes) :
       shapes \in {s \in UNION {[1..n -> LogShapes] : n \in 0..MaxSessions} :
                     Cardinality({i \in DOMAIN s : s[i].status = "running"}) <= 1}}

LogDocs == {CompleteFile(<<t>>) : t \in LogTasks}

LogFilters ==
    {NoFilters, [NoFilters EXCEPT !.limit = 1],
     [NoFilters EXCEPT !.status = {"IN_PROGRESS", "WAITING_APPROVAL"}]}

InitLogs ==
    /\ doc \in LogDocs
    /\ committed = doc
    /\ tmp = Absent
    /\ lock = 0
    /\ pc = [p \in Procs |-> "idle"]
    /\ op = [p \in Procs |-> NoOp]
    /\ local = [p \in Procs |-> <<>>]
    /\ result = [p \in Procs |-> NoResult]
    /\ clock = MaxClock
    /\ nextId = Len(readTasks(doc)) + 1
    /\ nextSid = MaxSessions + 1
    /\ opsLeft = 1
    /\ stale = [p \in Procs |-> FALSE]
    /\ createdOk = {readTasks(doc)[i].id : i \in 1..Len(readTasks(doc))}
    /\ quiet = [p \in Procs |-> 0]
    /\ prevClaim = [p \in Procs |-> NoClaim]
    /\ active = 1
    /\ parked = OneProject
    /\ projects = OpenProjects
    /\ taskStores = OpenStores

NextLogs == \E p \in {1} : listTasksWith(p, LogFilters)

SpecLogs == InitLogs /\ [][NextLogs]_vars

\* ===================================================================== C1
Ids(tasks) == {tasks[i].id : i \in 1..Len(tasks)}
AllIdle == \A p \in Procs : pc[p] = "idle"

\* C1: when every createTask that was started with a valid input has returned
\* successfully, the document holds the tasks it held before and the created
\* ones, each once, with distinct ids
C1_NoCreateLost ==
    (AllIdle /\ Cardinality(createdOk) = nextId - 1) =>
        /\ Len(readTasks(doc)) = Cardinality(createdOk)
        /\ Ids(readTasks(doc)) = createdOk

\* ===================================================================== C2
HoldsLock(p) == pc[p] \in {"locked", "writing", "written", "renamed", "dead",
                           "deadAfterRename"}

\* C2: at most one process is between acquiring and releasing the lock, and
\* the marker is its own
C2_OneWriter ==
    \A p, q \in Procs : (HoldsLock(p) /\ HoldsLock(q)) => (p = q /\ lock = p)

C2_Witness ==
    \E p, q \in Procs : pc[p] = "writing" /\ pc[q] = "sleep"

\* ===================================================================== C3
\* C3: no other write is committed between an operation's read of the
\* document and its own rename
C3_LockedCycle == \A p \in Procs : pc[p] = "renamed" => ~stale[p]

\* ===================================================================== C4
\* C4: the canonical document is never a partially written file, so a read
\* returns the collection of some committed document
C4_NeverTorn == doc.state # "partial" /\ doc = committed

C4_Witness ==
    \E p, q \in Procs :
        /\ pc[p] = "writing" /\ tmp.state = "partial"
        /\ pc[q] = "claimGet" /\ doc.state = "complete"

\* ===================================================================== C5
\* the step in which process q calls getTask and gets its result
GetTaskStep(q) ==
    /\ pc[q] = "idle" /\ opsLeft' < opsLeft
    /\ result'[q].kind = "getTask" /\ result'[q].seq = opsLeft

\* C5: once a writer has died between taking the lock and the rename, the
\* document is the previously committed one, it stays so, and a read returns
\* what that collection holds
C5_CrashKeepsCommitted ==
    [][/\ (\E p \in Procs : pc'[p] = "dead") =>
             (doc' = committed' /\ doc'.state # "partial")
       /\ (\E p \in Procs : pc[p] = "dead") =>
             /\ committed' = committed
             /\ \A q \in Procs :
                  GetTaskStep(q) =>
                     result'[q].value = findTask(readTasks(committed), result'[q].id)
      ]_vars

C5_Witness ==
    \E p, q \in Procs :
        /\ pc[p] = "dead" /\ tmp.state = "partial"
        /\ committed.state = "complete"
        /\ result[q].kind = "getTask" /\ result[q].value # <<>>
        /\ result[q].seq < op[p].seq
\* ===================================================================== C6
RunningCount(task) ==
    Cardinality({j \in 1..Len(task.runSessions) : task.runSessions[j].status = "running"})

\* C6: in every persisted document every task has at most one running session
C6_AtMostOneRunning ==
    \A i \in 1..Len(readTasks(doc)) : RunningCount(readTasks(doc)[i]) <= 1

\* two startRun calls on one task that both passed the check, one committed
C6_Witness ==
    \E p, q \in Procs :
        /\ p # q
        /\ op[p].kind = "startRun" /\ op[q].kind = "startRun" /\ op[p].id = op[q].id
        /\ pc[p] = "renamed" /\ pc[q] \in {"acquire", "sleep"}

\* ===================================================================== C7
\* the step in which process p calls startRun(id)
StartRunCall(p, id) ==
    /\ pc[p] = "idle" /\ opsLeft' < opsLeft
    /\ \/ pc'[p] = "acquire" /\ op'[p].kind = "startRun" /\ op'[p].id = id
       \/ /\ pc'[p] = "idle" /\ result'[p].kind = "startRun"
          /\ result'[p].seq = opsLeft /\ result'[p].id = id

HasRunning(tasks, id) ==
    \E i \in 1..Len(tasks) : tasks[i].id = id /\ RunningCount(tasks[i]) > 0

\* C7: startRun on a task that has a running session throws the
\* already-running error and changes neither the document nor anything else
C7_StartRunRefused ==
    [][\A p \in Procs, id \in TaskIds :
          (StartRunCall(p, id) /\ HasRunning(readTasks(doc), id)) =>
              /\ result'[p].status = ErrRunning
              /\ pc'[p] = "idle"
              /\ doc' = doc /\ tmp' = tmp /\ lock' = lock
              /\ nextSid' = nextSid /\ local' = local
      ]_vars

C7_Witness ==
    \E p \in Procs :
        /\ result[p].kind = "startRun" /\ result[p].status = ErrRunning
        /\ HasRunning(readTasks(doc), result[p].id)

\* ===================================================================== C8
IsPrefix(a, b) == Len(a) <= Len(b) /\ SubSeq(b, 1, Len(a)) = a

\* C8: for a task that stays in the document, every newly committed document
\* stores the previous history with zero or more entries appended
C8_HistoryAppendOnly ==
    [][\A i \in 1..Len(readTasks(doc)), j \in 1..Len(readTasks(doc')) :
          readTasks(doc)[i].id = readTasks(doc')[j].id =>
              IsPrefix(readTasks(doc)[i].history, readTasks(doc')[j].history)
      ]_vars

\* ===================================================================== C9
CreationEntry(h) == h.from = Null /\ h.to = "BACKLOG"

\* C9: every persisted task has a history that starts with null -> BACKLOG,
\* and the task createTask writes has that entry alone, status BACKLOG and no
\* run session
C9_CreationEntryFirst ==
    /\ \A i \in 1..Len(readTasks(doc)) :
         /\ Len(readTasks(doc)[i].history) >= 1
         /\ CreationEntry(readTasks(doc)[i].history[1])
    /\ \A p \in Procs :
         (op[p].kind = "createTask" /\ pc[p] # "idle") =>
            LET t == local[p][Len(local[p])] IN
            /\ t.id = op[p].id
            /\ t.status = "BACKLOG"
            /\ Len(t.history) = 1 /\ CreationEntry(t.history[1])
            /\ t.runSessions = <<>>

\* a task created in this behaviour has got a second history entry
C9_Witness ==
    \E p, q \in Procs, i \in 1..Len(readTasks(doc)) :
        /\ result[p].kind = "createTask" /\ result[p].status = "ok"
        /\ result[q].kind \in {"updateStatus", "startRun"} /\ result[q].status = "ok"
        /\ result[q].id = result[p].id
        /\ readTasks(doc)[i].id = result[p].id
        /\ Len(readTasks(doc)[i].history) >= 2

\* ==================================================================== C10
\* a step of a claimNextTask call of process p, and the step that ends it
ClaimEnd(p) ==
    \/ pc[p] = "claimGet" /\ pc'[p] = "idle"
    \/ /\ pc[p] = "idle" /\ pc'[p] = "idle" /\ opsLeft' < opsLeft
       /\ result'[p].kind = "claimNextTask" /\ result'[p].seq = opsLeft

ClaimStep(p) ==
    \/ ClaimEnd(p)
    \/ pc[p] = "idle" /\ pc'[p] = "claimGet"

\* C10: claimNextTask leaves the document, the lock and the temporary file
\* alone; with no commit since the call began the returned task is BACKLOG in
\* the document, and a second equal call with no commit since the first began
\* returns what the first returned
C10_ClaimReadOnly ==
    [][\A p \in Procs :
          /\ ClaimStep(p) => (doc' = doc /\ lock' = lock /\ tmp' = tmp)
          /\ (ClaimEnd(p) /\ quiet'[p] >= 1 /\ result'[p].value # <<>>) =>
                /\ result'[p].value[1].status = "BACKLOG"
                /\ findTask(readTasks(doc'), result'[p].id) = result'[p].value
          /\ (ClaimEnd(p) /\ quiet'[p] = 2) =>
                result'[p].value = prevClaim[p].value
      ]_vars

\* a second equal call has returned the task the first returned
C10_Witness ==
    \E p \in Procs :
        /\ quiet[p] = 2 /\ pc[p] = "idle"
        /\ result[p].kind = "claimNextTask" /\ result[p].value # <<>>
        /\ lock = 0

\* ==================================================================== C11
\* the BACKLOG tasks of the document that match the sets of a claim
Claimable(categories, priorities) ==
    {t \in {readTasks(doc)[i] : i \in 1..Len(readTasks(doc))} :
        /\ t.status = "BACKLOG"
        /\ (categories # {} => t.category \in categories)
        /\ (priorities # {} => t.priority \in priorities)}

\* a comes before b, or level with it: higher priority, or the same and not younger
NotAfter(a, b) ==
    \/ priorityOrder[a.priority] < priorityOrder[b.priority]
    \/ /\ a.priority = b.priority
       /\ a.createdAt <= b.createdAt

ClaimReturned(p) ==
    /\ pc[p] = "idle"
    /\ result[p].kind = "claimNextTask"
    /\ result[p].status = "ok"

\* C11: on a document nobody writes, claimNextTask returns null exactly when no
\* BACKLOG task matches its category and priority sets, and otherwise the full
\* record of a matching BACKLOG task that no other one precedes by priority
\* rank and then by createdAt
C11_ClaimFirst ==
    \A p \in Procs :
        ClaimReturned(p) =>
            LET M == Claimable(prevClaim[p].categories, prevClaim[p].priorities)
                v == result[p].value
            IN /\ (v = <<>>) <=> (M = {})
               /\ v # <<>> => /\ v[1] \in M
                              /\ \A u \in M : NotAfter(v[1], u)

\* a claim with both sets given returns a task that stands behind another
\* matching task in the document
C11_Witness ==
    \E p \in Procs :
        /\ ClaimReturned(p)
        /\ result[p].value # <<>>
        /\ prevClaim[p].categories # {}
        /\ prevClaim[p].priorities # {}
        /\ \E u \in Claimable(prevClaim[p].categories, prevClaim[p].priorities) :
              /\ u.id < result[p].value[1].id
              /\ u.priority # result[p].value[1].priority

\* ==================================================================== C12
ListReturned(p) ==
    /\ pc[p] = "idle"
    /\ result[p].kind = "listTasks"
    /\ result[p].status = "ok"

\* the stored task an item stands for
Stored(id) == readTasks(doc)[findIndex(readTasks(doc), id)]

ItemIds(items) == [i \in 1..Len(items) |-> items[i].id]

\* the collection A(HIGH, t=1), B(LOW, t=0), C(HIGH, t=0), in this order
IsExample(tasks) ==
    /\ Len(tasks) = 3
    /\ tasks[1].priority = "HIGH" /\ tasks[1].createdAt = 1
    /\ tasks[2].priority = "LOW" /\ tasks[2].createdAt = 0
    /\ tasks[3].priority = "HIGH" /\ tasks[3].createdAt = 0

\* C12: the items listTasks returns are ordered by priority rank (HIGH, MEDIUM,
\* LOW) and within one priority by createdAt ascending, whatever the document
\* and the filter; the tasks A(HIGH, t=1), B(LOW, t=0), C(HIGH, t=0) are
\* listed as C, A, B
C12_ListOrdered ==
    \A p \in Procs :
        ListReturned(p) =>
            LET items == result[p].value[1].items IN
            /\ \A i, j \in 1..Len(items) :
                  i < j => NotAfter(Stored(items[i].id), Stored(items[j].id))
            /\ (IsExample(readTasks(doc)) /\ Len(items) = 3) =>
                  ItemIds(items) = <<3, 1, 2>>

\* the example collection has been listed whole
C12_Witness ==
    \E p \in Procs :
        /\ ListReturned(p)
        /\ IsExample(readTasks(doc))
        /\ ItemIds(result[p].value[1].items) = <<3, 1, 2>>

\* ==================================================================== C13
PagesReturned(p) ==
    /\ pc[p] = "idle"
    /\ result[p].kind = "listPages"
    /\ result[p].status = "ok"

\* the full filtered and sorted result
FullResult(f) ==
    LET tasks == sortTasks(filterTasks(readTasks(doc), f)) IN
    [i \in 1..Len(tasks) |-> summary(tasks[i])]

\* C13: for every document, filter and numeric limit, the pages got by starting
\* without a cursor and following nextCursor until it is null, with no write in
\* between, add up to the full filtered and sorted result, each item once
C13_PagesComplete ==
    \A p \in Procs :
        PagesReturned(p) =>
            result[p].value[1].items = FullResult(result[p].value[1].filter)

\* ==================================================================== C14
Acquiring(p) == pc[p] \in {"acquire", "sleep"}

\* how an acquisition may end: the marker is p's, or the timeout error is
\* thrown after the whole window has passed
AcquireEnd(p) ==
    (Acquiring(p) /\ ~Acquiring(p)') =>
        \/ lock' = p
        \/ /\ pc'[p] = "idle"
           /\ result'[p].status = ErrLock
           /\ op[p].waited >= LockTimeout

C15_MarkerRemoved == \A p \in Procs : pc[p] = "idle" => lock # p

\* ==================================================================== C16
Dead(p) == pc[p] \in {"dead", "deadAfterRename"}

\* C16: the marker left by a writer that died holding the lock does not block
\* the other writers for ever: it is eventually gone, so that a later write can
\* create its own marker and commit
C16_StaleLockExpires == \A p \in Procs : (Dead(p) /\ lock = p) ~> (lock # p)

\* ==================================================================== C17
Persisted == {readTasks(doc)[i] : i \in 1..Len(readTasks(doc))}

\* C17: after any createTask and updateTask calls every task of the persisted
\* collection has a title of at least 3 characters
C17_TitlesValid == \A t \in Persisted : t.title >= MinTitleLen

\* ==================================================================== C18
\* C18: no persisted task has a branch target of type new whose name is
\* missing or empty
C18_BranchNamed ==
    \A t \in Persisted :
        t.branchTarget.type = "new" => t.branchTarget.name \notin {Null, ""}

\* ==================================================================== C19
ByTaskId == {"updateTask", "deleteTask", "updateStatus", "startRun", "stopRun", "addLog"}
BySession == {"stopRun", "addLog"}

\* the sessions of the stored task
SessionsOf(id) ==
    LET s == Stored(id).runSessions IN {s[i].sessionId : i \in 1..Len(s)}

\* p calls an operation in this step and goes on to write
Proceeds(p) ==
    /\ pc[p] = "idle"
    /\ opsLeft' < opsLeft
    /\ pc'[p] = "acquire"

\* p calls an operation in this step and the call throws at once
Throws(p) ==
    /\ pc[p] = "idle"
    /\ opsLeft' < opsLeft
    /\ pc'[p] = "idle"
    /\ result'[p].seq = opsLeft
    /\ result'[p].status # "ok"

Untouched == doc' = doc /\ tmp' = tmp /\ lock' = lock

ErrorPath(p) ==
    /\ (Proceeds(p) /\ op'[p].kind \in ByTaskId) =>
          /\ op'[p].id \in Ids(readTasks(doc))
          /\ op'[p].kind \in BySession => op'[p].sid \in SessionsOf(op'[p].id)
    /\ (Proceeds(p) /\ op'[p].kind = "createTask") =>
          local'[p][Len(local'[p])].title >= MinTitleLen
    /\ (Throws(p) /\ result'[p].kind \in ByTaskId) =>
          /\ Untouched
          /\ (result'[p].id \notin Ids(readTasks(doc))) <=>
                (result'[p].status = ErrTaskNotFound)
          /\ (/\ result'[p].kind \in BySession
              /\ result'[p].id \in Ids(readTasks(doc))) =>
                /\ result'[p].status = ErrSessionNotFound
                /\ result'[p].sid \notin SessionsOf(result'[p].id)
    /\ (Throws(p) /\ result'[p].kind = "createTask") =>
          /\ Untouched
          /\ result'[p].status = ErrTitle

\* C19: updateTask, deleteTask, updateStatus, startRun, stopRun and addLog given
\* an id that is not in the collection throw task-not-found, stopRun and addLog
\* given a session id that is not a session of the task throw
\* session-not-found, createTask given a title shorter than 3 throws
\* title-too-short; the call ends there, without the lock taken and with the
\* document as it was
C19_ErrorsTouchNothing == [][\A p \in Procs : ErrorPath(p)]_vars

\* stopRun or addLog has thrown session-not-found while another process was
\* inside writeTasks
C19_Witness ==
    /\ \E p \in Procs : result[p].status = ErrSessionNotFound /\ pc[p] = "idle"
    /\ \E q \in Procs : pc[q] \in {"locked", "writing", "written"}

\* ==================================================================== C20
\* what a read returns on an empty collection: no items and no cursor, or null
EmptyAnswer(kind, value) ==
    IF kind = "listTasks" THEN value = <<[items |-> <<>>, nextCursor |-> 0]>>
    ELSE value = <<>>

\* C20: on a document that is absent, unreadable or anything but a well-formed
\* array of tasks, listTasks, getTask and claimNextTask do not throw and
\* return what they return on an empty collection
C20_ReadsNeverFail ==
    \A p \in Procs :
        (/\ doc.state # "complete"
         /\ pc[p] = "idle"
         /\ result[p].kind \in {"listTasks", "getTask", "claimNextTask"}) =>
            /\ result[p].status = "ok"
            /\ EmptyAnswer(result[p].kind, result[p].value)

\* ==================================================================== C21
\* C21: after createTask, startRun, addLog and stopRun, each called on the
\* task and the session of the call before once that call has returned and
\* with no other operation in between, the task has status WAITING_APPROVAL,
\* a history of the three entries null to BACKLOG, BACKLOG to IN_PROGRESS and
\* IN_PROGRESS to WAITING_APPROVAL, and one run session, stopped, with endedAt
\* set and two log entries: the seed entry and the added one
C21_RunSequence ==
    \A p \in Procs :
        Returned(p, "stopRun") =>
            LET t == Stored(result[p].id)
                h == t.history
                s == t.runSessions
            IN /\ t.status = "WAITING_APPROVAL"
               /\ Len(h) = 3
               /\ h[1].from = Null /\ h[1].to = "BACKLOG"
               /\ h[2].from = "BACKLOG" /\ h[2].to = "IN_PROGRESS"
               /\ h[3].from = "IN_PROGRESS" /\ h[3].to = "WAITING_APPROVAL"
               /\ Len(s) = 1
               /\ s[1].status = "stopped"
               /\ s[1].endedAt # NoTime
               /\ Len(s[1].logs) = 2
               /\ s[1].logs[1].message = "Task execution started"
               /\ s[1].logs[2].message = "msg"

\* the four calls have returned, on a task created next to an older one
C21_Witness ==
    \E p \in Procs :
        /\ Returned(p, "stopRun")
        /\ Len(readTasks(doc)) = 2
        /\ Stored(result[p].id).branchTarget.type = "new"

\* ==================================================================== C22
\* the rename of a deleteTask for this id
DeleteCommits(id) ==
    \E p \in Procs :
        /\ pc[p] = "written"
        /\ pc'[p] = "renamed"
        /\ op[p].kind = "deleteTask"
        /\ op[p].id = id

\* C22: a task that is in the persisted collection is still in it after every
\* step, whatever operations of whatever processes interleave, except the
\* step that commits a deleteTask for its id
C22_OnlyDeleteRemoves ==
    [][\A id \in Ids(readTasks(doc)) :
          id \in Ids(readTasks(doc')) \/ DeleteCommits(id)]_vars

\* ==================================================================== C23
\* C23: whatever a store method called by a tool throws, the tool call returns
\* the payload {error: message} with the error flag set, and getTask of an
\* unknown id returns the payload {error: 'Task not found'} with the flag set
C23_ErrorsStructured ==
    \A p \in Procs :
        (pc[p] = "idle" /\ result[p].kind \in ToolKinds) =>
            /\ result[p].status # "ok" =>
                  toolReply(result[p]) = [error |-> result[p].status, isError |-> TRUE]
            /\ (/\ result[p].kind = "getTask"
                /\ result[p].status = "ok"
                /\ result[p].value = <<>>) =>
                  toolReply(result[p]) = [error |-> ErrTaskNotFound, isError |-> TRUE]

\* ==================================================================== C24
\* p handles a runTask message in this step
RunTaskStep(p) ==
    /\ pc[p] = "idle"
    /\ opsLeft' < opsLeft
    /\ result'[p].kind = "runTask"
    /\ result'[p].seq = opsLeft

\* C24: handling a runTask message leaves the store as it was, for every task
\* and every choice in the branch dialogs, dismissal included: the documents
\* of all projects, the temporary file and the marker are unchanged
C24_RunTaskReadOnly ==
    [][\A p \in Procs :
          RunTaskStep(p) => \A k \in ProjectIds : DirOf(k)' = DirOf(k)]_vars

\* the play button has been handled to the end for a task with a new branch,
\* and the task is as it was created, in BACKLOG
C24_Witness ==
    \E p \in Procs :
        /\ result[p].kind = "runTask"
        /\ result[p].value = <<"taskRunStarted">>
        /\ result[p].id \in Ids(readTasks(doc))
        /\ Stored(result[p].id).branchTarget.type = "new"
        /\ Stored(result[p].id).status = "BACKLOG"

\* ==================================================================== C25
SwitchStep(p) ==
    /\ pc[p] = "idle"
    /\ result'[p].kind = "switchProject"
    /\ result'[p] # result[p] \/ active' # active

\* C25: a switchProject message changes the files of no project and makes the
\* named project the active one, or changes nothing when the registry does not
\* have the id; every other step of the provider changes the files of no
\* project but the active one, and leaves the active project as it is
C25_SwitchOnlyReassigns ==
    [][\A p \in Procs :
          /\ SwitchStep(p) =>
                /\ \A k \in ProjectIds : DirOf(k)' = DirOf(k)
                /\ active' = IF result'[p].id \in ProjectIds
                              THEN result'[p].id ELSE active
          /\ ~(\E q \in Procs : SwitchStep(q)) =>
                /\ active' = active
                /\ \A k \in ProjectIds \ {active} : DirOf(k)' = DirOf(k)]_vars

\* after a switch to the second project a task was created there, next to
\* the task that project had; the first project's document is a different one
C25_Witness ==
    /\ active = 2
    /\ Len(readTasks(doc)) = 2
    /\ readTasks(doc)[1].id > MaxTasks
    /\ parked[1].doc # doc

\* ==================================================================== C26
\* the step in which process p calls the operation kind on task id
Calls(p, kind, id) ==
    /\ pc[p] = "idle" /\ opsLeft' < opsLeft
    /\ \/ pc'[p] = "acquire" /\ op'[p].kind = kind /\ op'[p].id = id
       \/ /\ pc'[p] = "idle" /\ result'[p].kind = kind
          /\ result'[p].seq = opsLeft /\ result'[p].id = id

\* the step in which the document written by the operation kind replaces the
\* stored one
Commits(p, kind) == pc[p] = "written" /\ pc'[p] = "renamed" /\ op[p].kind = kind

PositionOf(tasks, id) == CHOOSE i \in 1..Len(tasks) : tasks[i].id = id

\* the task as the call found it, and as the call hands it to writeTasks
Found(id) == readTasks(doc)[PositionOf(readTasks(doc), id)]
Handed(p, id) == local'[p][PositionOf(readTasks(doc), id)]

\* the collection handed to writeTasks has the tasks of the stored one at
\* their positions, the one named id apart
OthersKept(p, id) ==
    /\ Len(local'[p]) = Len(readTasks(doc))
    /\ \A i \in 1..Len(local'[p]) :
          i # PositionOf(readTasks(doc), id) => local'[p][i] = readTasks(doc)[i]

Last(s) == s[Len(s)]
OneMore(before, after) == Len(after) = Len(before) + 1 /\ IsPrefix(before, after)

StartRunEffect(p, id) ==
    LET before == Found(id)
        after == Handed(p, id)
        session == Last(after.runSessions)
        entry == Last(after.history) IN
    /\ pc'[p] = "acquire"
    /\ OthersKept(p, id)
    /\ OneMore(before.runSessions, after.runSessions)
    /\ session.status = "running"
    /\ session.sessionId \notin SessionsOf(id)
    /\ Len(session.logs) = 1
    /\ after.status = "IN_PROGRESS"
    /\ OneMore(before.history, after.history)
    /\ entry.from = before.status /\ entry.to = "IN_PROGRESS"
    /\ entry.by = "system" /\ entry.sessionId = session.sessionId

\* C26: startRun on a stored task without a running session goes on to write,
\* whatever the task's status: the task it writes has one more session, which
\* is running and has one log entry, status IN_PROGRESS and one more history
\* entry, from the status found to IN_PROGRESS, by system, with the new
\* session's id; the earlier sessions and history entries are the ones found;
\* and the document it commits is that collection
C26_StartRunEffect ==
    [][\A p \in Procs :
          /\ \A id \in TaskIds :
                (/\ Calls(p, "startRun", id)
                 /\ id \in Ids(readTasks(doc))
                 /\ ~HasRunning(readTasks(doc), id)) => StartRunEffect(p, id)
          /\ Commits(p, "startRun") => readTasks(doc') = local[p]
      ]_vars

\* startRun has returned for a task that was FINISHED and had a stopped session
C26_Witness ==
    \E p \in Procs :
        /\ Returned(p, "startRun")
        /\ LET task == Stored(result[p].id) IN
             /\ Len(task.runSessions) > 1
             /\ Last(task.history).from = "FINISHED"
             /\ task.status = "IN_PROGRESS"

\* ==================================================================== C27
\* the step in which process p calls the operation kind on session sid of
\* task id
CallsSession(p, kind, id, sid) ==
    /\ Calls(p, kind, id)
    /\ \/ pc'[p] = "acquire" /\ op'[p].sid = sid
       \/ pc'[p] = "idle" /\ result'[p].sid = sid

\* the sessions of after are those of before, the one named sid apart
OtherSessionsKept(before, after, sid) ==
    /\ Len(after.runSessions) = Len(before.runSessions)
    /\ \A i \in 1..Len(after.runSessions) :
          /\ after.runSessions[i].sessionId = before.runSessions[i].sessionId
          /\ before.runSessions[i].sessionId # sid =>
                after.runSessions[i] = before.runSessions[i]

SessionOf(task, sid) ==
    task.runSessions[CHOOSE i \in 1..Len(task.runSessions) :
                        task.runSessions[i].sessionId = sid]

StopRunEffect(p, id, sid) ==
    LET before == Found(id)
        after == Handed(p, id)
        entry == Last(after.history) IN
    /\ pc'[p] = "acquire"
    /\ OthersKept(p, id)
    /\ OtherSessionsKept(before, after, sid)
    /\ SessionOf(after, sid).status = "stopped"
    /\ SessionOf(after, sid).endedAt = clock'
    /\ SessionOf(after, sid).endedAt # NoTime
    /\ SessionOf(after, sid).logs = SessionOf(before, sid).logs
    /\ SessionOf(after, sid).startedAt = SessionOf(before, sid).startedAt
    /\ after.status = "WAITING_APPROVAL"
    /\ OneMore(before.history, after.history)
    /\ entry.from = before.status /\ entry.to = "WAITING_APPROVAL"
    /\ entry.by = "system" /\ entry.sessionId = sid

\* C27: stopRun on a session the stored task has goes on to write, whatever the
\* status of the session and of the task: in the task it writes that session is
\* stopped and ended now, the other sessions are the ones found, the status is
\* WAITING_APPROVAL and the history has one more entry, from the status found
\* to WAITING_APPROVAL, by system, with that session id; and the document it
\* commits is that collection
C27_StopRunEffect ==
    [][\A p \in Procs :
          /\ \A id \in TaskIds, sid \in SessionIds :
                (/\ CallsSession(p, "stopRun", id, sid)
                 /\ id \in Ids(readTasks(doc))
                 /\ sid \in SessionsOf(id)) => StopRunEffect(p, id, sid)
          /\ Commits(p, "stopRun") => readTasks(doc') = local[p]
      ]_vars

\* stopRun has returned for a session that was stopped already, on a task that
\* was FINISHED
C27_Witness ==
    \E p \in Procs :
        /\ Returned(p, "stopRun")
        /\ LET task == Stored(result[p].id) IN
             /\ Last(task.history).from = "FINISHED"
             /\ Len(task.history) > 1
             /\ task.history[Len(task.history) - 1].to = "FINISHED"
             /\ task.status = "WAITING_APPROVAL"

\* ==================================================================== C28
AddLogEffect(p, id, sid) ==
    LET before == Found(id)
        after == Handed(p, id) IN
    /\ OthersKept(p, id)
    /\ OtherSessionsKept(before, after, sid)
    /\ OneMore(SessionOf(before, sid).logs, SessionOf(after, sid).logs)
    /\ SessionOf(after, sid) =
          [SessionOf(before, sid) EXCEPT !.logs = SessionOf(after, sid).logs]
    /\ after.updatedAt = clock'
    /\ after = [before EXCEPT !.updatedAt = after.updatedAt,
                              !.runSessions = after.runSessions]

\* C28: the collection addLog hands to writeTasks differs from the one it
\* found in the named session's logs, which have one more entry at the end,
\* and in the task's updatedAt, which is the time of the call, and in nothing
\* else; and the document it commits is that collection
C28_AddLogFrame ==
    [][\A p \in Procs :
          /\ \A id \in TaskIds, sid \in SessionIds :
                (CallsSession(p, "addLog", id, sid) /\ pc'[p] = "acquire") =>
                    AddLogEffect(p, id, sid)
          /\ Commits(p, "addLog") => readTasks(doc') = local[p]
      ]_vars

\* addLog has returned for the first session of a task that has two sessions
\* and stands beside another task
C28_Witness ==
    \E p \in Procs :
        /\ Returned(p, "addLog")
        /\ Len(readTasks(doc)) > 1
        /\ LET task == Stored(result[p].id) IN
             /\ Len(task.runSessions) > 1
             /\ Len(task.runSessions[1].logs) > 1

\* ==================================================================== C29
UpdateStatusEffect(p, id) ==
    LET before == Found(id)
        after == Handed(p, id)
        input == op'[p].args[1]
        entry == Last(after.history) IN
    /\ pc'[p] = "acquire"
    /\ OthersKept(p, id)
    /\ after.status = input.status
    /\ OneMore(before.history, after.history)
    /\ entry.from = before.status /\ entry.to = input.status
    /\ entry.by = input.by /\ entry.reason = input.reason
    /\ entry.sessionId = input.sessionId
    /\ after.runSessions = before.runSessions

\* C29: updateStatus on a stored task goes on to write, whatever the status
\* found and the status requested: the task it writes has the requested
\* status, one more history entry, from the status found to the requested one
\* with the by, reason and sessionId of the input, and the run sessions found;
\* and the document it commits is that collection
C29_UpdateStatusEffect ==
    [][\A p \in Procs :
          /\ \A id \in TaskIds :
                (Calls(p, "updateStatus", id) /\ id \in Ids(readTasks(doc))) =>
                    UpdateStatusEffect(p, id)
          /\ Commits(p, "updateStatus") => readTasks(doc') = local[p]
      ]_vars

\* updateStatus has returned after moving a FINISHED task to FINISHED on
\* behalf of an agent, with a reason and a session id
C29_Witness ==
    \E p \in Procs :
        /\ Returned(p, "updateStatus")
        /\ LET task == Stored(result[p].id)
               entry == Last(task.history) IN
             /\ task.status = "FINISHED"
             /\ entry.from = "FINISHED" /\ entry.to = "FINISHED"
             /\ entry.by = "agent" /\ entry.reason # Null
             /\ entry.sessionId # NoSession

\* ==================================================================== C30
UpdateTaskEffect(p, id) ==
    LET before == Found(id)
        after == Handed(p, id)
        input == op'[p].args[1] IN
    /\ OthersKept(p, id)
    /\ input.title = NoTitle => after.title = before.title
    /\ input.description = Null => after.description = before.description
    /\ input.category = Null => after.category = before.category
    /\ input.priority = Null => after.priority = before.priority
    /\ input.branchTarget = <<>> => after.branchTarget = before.branchTarget
    /\ input.title # NoTitle => after.title = input.title
    /\ input.description # Null => after.description = input.description
    /\ input.category # Null => after.category = input.category
    /\ input.priority # Null => after.priority = input.priority
    /\ input.branchTarget # <<>> => after.branchTarget = input.branchTarget[1]
    /\ after.updatedAt = clock'
    /\ after.id = before.id /\ after.status = before.status
    /\ after.createdAt = before.createdAt
    /\ after.history = before.history /\ after.runSessions = before.runSessions
    /\ DOMAIN after = DOMAIN before

\* C30: the collection updateTask hands to writeTasks has the task at the
\* position it was found at, with the supplied fields among title,
\* description, category, priority and branchTarget taken from the input,
\* updatedAt the time of the call and every other field as found, and every
\* other task as found; and the document it commits is that collection
C30_UpdateTaskFrame ==
    [][\A p \in Procs :
          /\ \A id \in TaskIds :
                (Calls(p, "updateTask", id) /\ pc'[p] = "acquire") =>
                    UpdateTaskEffect(p, id)
          /\ Commits(p, "updateTask") => readTasks(doc') = local[p]
      ]_vars

\* updateTask has returned for a task that stands second in the collection,
\* is FINISHED and has a session: its title and priority are new, its category
\* is the one it had
C30_Witness ==
    \E p \in Procs :
        /\ Returned(p, "updateTask")
        /\ Len(readTasks(doc)) > 1
        /\ LET task == readTasks(doc)[Len(readTasks(doc))] IN
             /\ task.id = result[p].id
             /\ task.status = "FINISHED" /\ Len(task.runSessions) > 0
             /\ task.title # InitialTask.title /\ task.priority # InitialTask.priority
             /\ task.category = InitialTask.category

\* ==================================================================== C31
\* the session a summary shows: the running one, else the last one
ShownSession(task) ==
    IF \E i \in 1..Len(task.runSessions) : task.runSessions[i].status = "running"
    THEN task.runSessions[CHOOSE i \in 1..Len(task.runSessions) :
                             task.runSessions[i].status = "running"]
    ELSE Last(task.runSessions)

Min(a, b) == IF a < b THEN a ELSE b

LastEntries(logs) == SubSeq(logs, Len(logs) - Min(RecentLogCount, Len(logs)) + 1, Len(logs))

\* C31: in every listTasks result the recentLogs of an item are absent when
\* its task has no session, and otherwise the last min(3, n) of the n log
\* entries, in order, of the task's running session or, without one, of its
\* last session (none when n = 0)
C31_RecentLogs ==
    \A p \in Procs :
        ListReturned(p) =>
            LET items == result[p].value[1].items IN
            \A i \in 1..Len(items) :
                LET task == Stored(items[i].id) IN
                IF Len(task.runSessions) = 0
                THEN items[i].recentLogs = <<>>
                ELSE items[i].recentLogs = LastEntries(ShownSession(task).logs)

\* a listed task has a stopped session and after it a running one with more
\* than three entries, and the item shows three
C31_Witness ==
    \E p \in Procs :
        /\ ListReturned(p)
        /\ \E i \in 1..Len(result[p].value[1].items) :
             LET item == result[p].value[1].items[i]
                 task == Stored(item.id) IN
             /\ Len(task.runSessions) > 1
             /\ Last(task.runSessions).status = "running"
             /\ Len(Last(task.runSessions).logs) > RecentLogCount
             /\ Len(item.recentLogs) = RecentLogCount
             /\ item.recentLogs[1] # Last(task.runSessions).logs[1]

\* ==================================================================== C32
Transitions == {"updateStatus", "startRun", "stopRun"}

HistoryChained(task) ==
    /\ Len(task.history) > 0
    /\ task.status = Last(task.history).to
    /\ \A i \in 2..Len(task.history) : task.history[i].from = task.history[i - 1].to

\* C32: in every stored document every task's status is the `to` of its last
\* history entry, and every history entry after the first starts from the
\* status the entry before it led to
C32_HistoryChained ==
    \A i \in 1..Len(readTasks(doc)) : HistoryChained(readTasks(doc)[i])

\* two processes have each returned from a status transition, and a stored
\* task has gone through two transitions since it was created
C32_Witness ==
    /\ \A p \in Procs :
          pc[p] = "idle" /\ result[p].status = "ok" /\ result[p].kind \in Transitions
    /\ \E i \in 1..Len(readTasks(doc)) : Len(readTasks(doc)[i].history) > 2

\* ==================================================================== C33
\* C33: the session a successful startRun has returned is among the run
\* sessions of its task in the stored document, as long as the document holds
\* the task
C33_SessionKept ==
    \A p \in Procs :
        (Returned(p, "startRun") /\ result[p].id \in Ids(readTasks(doc))) =>
            result[p].value[1].sessionId \in SessionsOf(result[p].id)

\* ==================================================================== C34
\* C34: the task a successful deleteTask has removed is in no stored document
\* afterwards
C34_DeletedStaysDeleted ==
    \A p \in Procs :
        Returned(p, "deleteTask") => result[p].id \notin Ids(readTasks(doc))

\* ==================================================================== C35
\* C35: a task returned by claimNextTask is the first of the filtered backlog
\* of one document state between the start and the end of the call; in
\* particular its status is BACKLOG and it matches the filters of the call
C35_ClaimSnapshot ==
    \A p \in Procs :
        (ClaimReturned(p) /\ result[p].value # <<>>) =>
            LET v == result[p].value[1] IN
            /\ v.status = "BACKLOG"
            /\ prevClaim[p].categories # {} => v.category \in prevClaim[p].categories
            /\ prevClaim[p].priorities # {} => v.priority \in prevClaim[p].priorities

\* ==================================================================== C36
\* C36: no stored task with status BACKLOG has a running session, so that
\* startRun on a task claimNextTask returns is not refused
C36_BacklogNotRunning ==
    \A i \in 1..Len(readTasks(doc)) :
        readTasks(doc)[i].status = "BACKLOG" => RunningCount(readTasks(doc)[i]) = 0

\* ==================================================================== C37
\* getActiveTaskStore() does not throw
HasActiveStore == active \in DOMAIN taskStores

\* C37: activeProjectId is always the id of a project of the registry that
\* has a TaskStore; a folder change keeps the active project when the new
\* registry has it and makes the first project active otherwise; no other
\* step but a switchProject message changes it
C37_ActiveProjectValid ==
    /\ [](/\ \E i \in 1..Len(projects) : projects[i].id = active
          /\ HasActiveStore)
    /\ [][(\E p \in Procs : SwitchStep(p)) \/
            active' = IF \E i \in 1..Len(projects') : projects'[i].id = active
                      THEN active ELSE projects'[1].id]_vars

\* after a folder change the active project is the one that was active
\* before, and it is not the first of the registry
C37_Witness ==
    /\ \E p \in Procs : result[p].kind = "foldersChanged"
    /\ Len(projects) > 1
    /\ projects[1].id # active
    /\ HasActiveStore

\* ==================================================================== C38
\* C38: the session the agent's startRun creates for an announced task has
\* the announced session id, and stopRun and addLog called with the announced
\* id after that startRun find the session
C38_AnnouncedSession ==
    \A p, q \in Procs :
        (Announced(p) /\ pc[q] = "idle" /\ result[q].id = result[p].id) =>
            /\ (result[q].kind = "startRun" /\ result[q].status = "ok") =>
                  result[q].value[1].sessionId = result[p].sid
            /\ (result[q].kind \in {"stopRun", "addLog"} /\ result[q].sid = result[p].sid) =>
                  result[q].status # ErrSessionNotFound

\* ==================================================================== C39
\* C39: the stop button of the card of a task that is IN_PROGRESS and has a
\* running session makes the provider write the task with that session stopped
\* and ended and with status WAITING_APPROVAL
C39_CardStopCloses ==
    [][\A p \in Procs, id \in TaskIds :
          (/\ CallsSession(p, "stopRun", id, EmptyText)
           /\ HasRunning(readTasks(doc), id)
           /\ Found(id).status = "IN_PROGRESS") =>
              /\ pc'[p] = "acquire"
              /\ Handed(p, id).status = "WAITING_APPROVAL"
              /\ \A i \in 1..Len(Found(id).runSessions) :
                    Found(id).runSessions[i].status = "running" =>
                        /\ Handed(p, id).runSessions[i].status = "stopped"
                        /\ Handed(p, id).runSessions[i].endedAt # NoTime
      ]_vars

\* ==================================================================== C40
BoardReturned(p) ==
    /\ pc[p] = "idle"
    /\ result[p].kind = "sendBoardState"
    /\ result[p].status = "ok"

ColumnIds(board, k) == {board[k][i].id : i \in 1..Len(board[k])}

\* nothing but the building of the board has happened
OnlyBoard(p) == \A q \in Procs \ {p} : pc[q] = "idle" /\ result[q].kind = "none"

\* C40: in every boardState message no task stands in two columns, and when
\* no other process has written to the store while the board was built every
\* stored task stands in exactly the column of its status
C40_BoardSnapshot ==
    \A p \in Procs :
        BoardReturned(p) =>
            LET board == result[p].value[1] IN
            /\ \A k, m \in 1..Len(BoardColumns) :
                  k # m => ColumnIds(board, k) \cap ColumnIds(board, m) = {}
            /\ OnlyBoard(p) =>
                  \A i \in 1..Len(readTasks(doc)), k \in 1..Len(BoardColumns) :
                      (readTasks(doc)[i].id \in ColumnIds(board, k))
                          <=> (readTasks(doc)[i].status = BoardColumns[k])
====
